---- MODULE Spec2Model ----
(***************************************************************************)
(* The process supervisor of src-tauri/src/commands/process.rs on a POSIX  *)
(* target (the #[cfg(unix)] branches): the registry                        *)
(* ProcessManager.processes, the commands start_app_process,               *)
(* stop_app_process and kill_all_processes, and the tasks start spawns     *)
(* (two output readers and the exit monitor), run as concurrent calls on   *)
(* the multi-threaded runtime.  Every lock().unwrap() critical section is  *)
(* one atomic step; the code between two critical sections, signals and    *)
(* probes is split where another task can observe the difference.          *)
(*                                                                         *)
(* Operating-system facts the model rests on:                              *)
(*   - a child that has exited stays a zombie until its exit monitor's     *)
(*     child.wait() has reaped it; kill(pid, 0) succeeds on a zombie;      *)
(*   - kill(-pgid, sig) fails with ESRCH when no process is in the group;  *)
(*   - a running process that is sent a signal terminates or survives it   *)
(*     (it handles or ignores it, or it cannot be interrupted);            *)
(*   - sleep(d) lasts at least d;                                          *)
(*   - process ids are not reused within a run of the model;               *)
(*   - the write ends of a child's output pipes are closed when the child  *)
(*     terminates, and not before;                                         *)
(*   - a process the child forks stays in the child's process group and    *)
(*     is reaped as soon as it terminates.                                 *)
(***************************************************************************)
EXTENDS Integers, Sequences, FiniteSets, TLC

\* ---------------------------------------------------------------- bounds
AppIds == {"a", "b"}

\* The AppIds are interchangeable: the first call is for this one.
FirstApp == "a"

\* The callers of the commands.  A caller waits for its call to return before
\* it makes the next one, so at most this many calls overlap.  The callers are
\* interchangeable: CallerOrder[1] calls whenever both could.
CallerOrder == <<"caller1", "caller2">>

Callers == {CallerOrder[i] : i \in DOMAIN CallerOrder}

\* Calls of all commands together in one run.
MaxCalls == 3

\* Sleeps of one wait that last exactly the poll interval; a later sleep of
\* the same wait runs past the step's bound.
MaxPolls == 1

\* Chunks of a path handed to normalize_path.
MaxChunks == 4

\* Characters of a path handed to the drive-letter conversions.
MaxChars == 4

\* Lines of the launch commands handed to the composition.
MaxLines == 3

\* Pieces of a URL handed to open_url_in_browser.
MaxUrlLen == 3

\* The timeout handed to wait_for_port_ready, in seconds.
MaxTimeoutS == 2

\* Calls of all commands together in a run of the one caller on its own.
MaxSoloCalls == 2

\* write(2) calls of a supervised child per output stream.
MaxWrites == 1

\* Pieces a child writes to the stream of a reader that runs on its own.
MaxBytes == 4

\* Supervised children whose output is followed, from the child's writes to
\* the readers' notifications: the first ones spawned.  They exit with any
\* code, the later ones with code 0.
MaxWriters == 1

\* ------------------------------------------------------ program constants
PollMs        == 100
StopIntTermMs == 2000
StopKillMs    == 1000
KillAllTermMs == 1500
KillAllKillMs == 1000
WaitPollMs    == 500

Pids == 1..MaxCalls

targets         == <<"SIGINT", "SIGTERM", "SIGKILL">>
\* Faulty variant: kill_all starts with the interrupt signal as stop does.
killall_targets_WithInt == <<"SIGINT", "SIGTERM", "SIGKILL">>

killall_targets == <<"SIGTERM", "SIGKILL">>

Streams == {"stdout", "stderr"}

\* std::process::ExitStatus::code() of a child that exited: Some(code), for
\* a code without a hint of its own and for one with.
ExitCodes == {0, 127}

VARIABLES
    processes,  \* ProcessManager.processes: AppId -> ProcessInfo, or None
    child,      \* the operating system's view of every child
    nextPid,    \* the next process id the operating system hands out
    monitor,    \* position of each child's exit monitor task
    reader,     \* position of each child's stdout / stderr reader task
    events,     \* everything app_handle.emit published, in order, per child
    call,       \* each caller's current (or last) call of a command
    ncalls,     \* the calls made so far
    unit        \* the evaluation of one helper function on its own: its
                \* arguments, its locals and its result

vars == <<processes, child, nextPid, monitor, reader, events, call, ncalls, unit>>

\* The supervisor's variables
supervisor == <<processes, child, nextPid, monitor, reader, events, call, ncalls>>

None == [pid |-> 0, pgid |-> 0, started_at |-> <<>>]

\* started_at is read from the clock right after the spawn: the time at which
\* `pid` was spawned.
ProcessInfo(pid, pgid) ==
    [pid |-> pid, pgid |-> pgid, started_at |-> <<"spawn of", pid>>]

\* A formatted string: the format and the values of its placeholders.
Text(format, args) == [format |-> format, args |-> args]

\* ProcessResult; pid 0 stands for pid: None and error Text("", <<>>) for
\* error: None.
ProcessResult(success, message, pid, error) ==
    [success |-> success, message |-> message, pid |-> pid, error |-> error]

NoError == Text("", <<>>)

Pending == ProcessResult(FALSE, Text("(the call has not returned)", <<>>), 0, NoError)

\* One app_handle.emit.  name, appId, pid and content are the payload (pid 0:
\* the payload has no pid); task records which call or task emitted it and is
\* not part of the payload.
Event(name, appId, pid, content, task) ==
    [name |-> name, appId |-> appId, pid |-> pid, content |-> content, task |-> task]

\* The sink's sequence of notifications is kept as its subsequences per child
\* (0: notifications about no child).
Emit(proc, es) == [events EXCEPT ![proc] = @ \o es]

\* ----------------------------------------------------- operating system
\* A child's slot in the process table: exit_code is <<code>> once the child
\* has exited with that code and <<>> while it runs or when a signal
\* terminated it; pipe[s] holds what the child wrote to stream s and the
\* reader has not read yet, written[s] counts the child's writes; descendant
\* is the process the child forked, if any.
NoChild ==
    [state |-> "unborn", app_id |-> "", exit_code |-> <<>>,
     pipe |-> [s \in Streams |-> <<>>], written |-> [s \in Streams |-> 0],
     descendant |-> "none"]

\* kill(pid, 0) == 0
Exists(p) == child[p].state \in {"running", "zombie"}

\* The process id of the process that child p forked.
Descendant(p) == p + MaxCalls

\* The child's process group is its own (pgid = pid) if setpgid(0, 0)
\* succeeded in pre_exec; otherwise the child stayed in the launcher's group
\* and no group has its pid.  Nothing but the signals of the one ladder that
\* holds the child's record depends on which it is, so it is drawn when that
\* ladder first signals the group ("unknown" until then) and kept by the ladder.
GroupOutcomes(group) ==
    IF group = "unknown" THEN {"own", "none"} ELSE {group}

GroupMembers(pgid, group) ==
    IF group # "own" THEN {}
    ELSE {p \in Pids : p = pgid /\ Exists(p)}
            \cup {Descendant(p) : p \in {q \in Pids :
                        q = pgid /\ child[q].descendant = "running"}}

\* Return code of kill(-pgid, sig)
KillRc(pgid, group) == IF GroupMembers(pgid, group) = {} THEN -1 ELSE 0

\* The running members of the group: the ones a signal can terminate
Running(pgid, group) ==
    {m \in GroupMembers(pgid, group) : m \in Pids => child[m].state = "running"}

\* The children after a signal that terminates the processes in `dying`: a
\* child a signal terminated has no exit code.
Killed(dying) ==
    [p \in Pids |->
        [child[p] EXCEPT
            !.state = IF p \in dying THEN "zombie" ELSE @,
            !.descendant = IF Descendant(p) \in dying THEN "gone" ELSE @]]

\* The elapsed time a wait can read after sleep(PollMs)
AfterSleep(elapsed, timeout_ms) ==
    IF elapsed < MaxPolls * PollMs
    THEN {elapsed + PollMs, timeout_ms + PollMs}
    ELSE {timeout_ms + PollMs}

\* Faulty variant: the loop has no timeout branch.
WaitPoll_NoTimeout(pid, elapsed, timeout_ms) ==
    IF ~Exists(pid) THEN "exited" ELSE "sleep"

\* One iteration of the loop of wait_for_exit / wait_for_exit_any
WaitPoll(pid, elapsed, timeout_ms) ==
    IF ~Exists(pid) THEN "exited"
    ELSE IF elapsed > timeout_ms THEN "timeout"
    ELSE "sleep"

\* ------------------------------------------------------------- callers
\* no numbers the calls in the order in which they are made.
NoCall ==
    [no |-> 0, cmd |-> "none", pc |-> "idle", app_id |-> "", pid |-> 0, pgid |-> 0,
     idx |-> 0, sig |-> 0, elapsed |-> 0, sent |-> <<>>, rcs |-> <<>>,
     waits |-> <<>>,
     last_error |-> NoError, success |-> FALSE, group |-> "unknown",
     hit |-> "", processes_to_kill |-> <<>>,
     killed_count |-> 0, failed_count |-> 0, ret |-> Pending,
     is_bookmark |-> FALSE, url |-> <<>>, snapshots |-> {}]

Idle(c) == call[c].pc \in {"idle", "done"}

\* Caller c makes the next call: it is not in a call, the run has calls left,
\* and no caller before it in CallerOrder is free as well.
MayCall(c) ==
    /\ Idle(c)
    /\ ncalls < MaxCalls
    /\ \E i \in DOMAIN CallerOrder :
          /\ CallerOrder[i] = c
          /\ \A j \in 1..(i - 1) : ~Idle(CallerOrder[j])

Begin(c, cmd, a, pc) ==
    [NoCall EXCEPT !.no = ncalls + 1, !.cmd = cmd, !.app_id = a, !.pc = pc]

\* No helper function is being evaluated on its own.
NoUnit == [fn |-> "none"]

\* The supervisor after construction: no record, no child, no call.
InitSupervisor ==
    /\ processes = [a \in AppIds |-> None]
    /\ child = [p \in Pids |-> NoChild]
    /\ nextPid = 1
    /\ monitor = [p \in Pids |-> "none"]
    /\ reader = [p \in Pids |-> [s \in Streams |-> "none"]]
    /\ events = [p \in Pids \cup {0} |-> <<>>]
    /\ call = [c \in Callers |-> NoCall]
    /\ ncalls = 0

Init == InitSupervisor /\ unit = NoUnit

\* The call returns: its locals are gone, its result stays with the caller.
Return(c, ret) ==
    [NoCall EXCEPT !.no = call[c].no, !.cmd = call[c].cmd, !.app_id = call[c].app_id,
                   !.pid = call[c].pid, !.pc = "done", !.ret = ret,
                   !.is_bookmark = call[c].is_bookmark]

\* ------------------------------------------------- start_app_process
AlreadyRunning ==
    ProcessResult(FALSE, Text("Process is already running", <<>>), 0,
                  Text("Process already exists", <<>>))

Started(pid) ==
    ProcessResult(TRUE, Text("Process started successfully", <<>>), pid, NoError)

\* Faulty variant: the existence check is dropped.
ContainsKey_Never(a) == FALSE

\* processes.contains_key(&app_id)
ContainsKey(a) == processes[a] # None

\* The call and its existence check under the lock.
StartCheck(c, a) ==
    /\ MayCall(c)
    /\ ncalls = 0 => a = FirstApp
    /\ ncalls' = ncalls + 1
    /\ IF ContainsKey(a)
       THEN call' = [call EXCEPT ![c] =
                [Begin(c, "start", a, "done") EXCEPT !.ret = AlreadyRunning]]
       ELSE call' = [call EXCEPT ![c] = Begin(c, "start", a, "checked")]
    /\ UNCHANGED <<unit, processes, child, nextPid, monitor, reader, events>>

\* cmd.spawn() succeeds; the two readers and the exit monitor are spawned.
StartSpawn(c) ==
    /\ call[c].cmd = "start" /\ call[c].pc = "checked"
    /\ nextPid \in Pids
    /\ child' = [child EXCEPT ![nextPid] =
            [NoChild EXCEPT !.state = "running", !.app_id = call[c].app_id]]
    /\ nextPid' = nextPid + 1
    /\ reader' = [reader EXCEPT ![nextPid] = [s \in Streams |-> "reading"]]
    /\ monitor' = [monitor EXCEPT ![nextPid] = "waiting"]
    /\ call' = [call EXCEPT ![c] = [@ EXCEPT !.pc = "spawned", !.pid = nextPid]]
    /\ UNCHANGED <<unit, processes, events, ncalls>>

\* processes.insert(app_id, process_info) under the lock; pgid = Some(pid).
StartInsert(c) ==
    /\ call[c].cmd = "start" /\ call[c].pc = "spawned"
    /\ processes' = [processes EXCEPT ![call[c].app_id] =
            ProcessInfo(call[c].pid, call[c].pid)]
    /\ call' = [call EXCEPT ![c] = [@ EXCEPT !.pc = "inserted"]]
    /\ UNCHANGED <<unit, child, nextPid, monitor, reader, events, ncalls>>

\* emit("process-started") and return.
StartEmit(c) ==
    /\ call[c].cmd = "start" /\ call[c].pc = "inserted"
    /\ events' = Emit(call[c].pid,
            <<Event("process-started", call[c].app_id, call[c].pid, "", c)>>)
    /\ call' = [call EXCEPT ![c] = Return(c, Started(call[c].pid))]
    /\ UNCHANGED <<unit, processes, child, nextPid, monitor, reader, ncalls>>

\* ------------------------------------------------------- the child
\* The child terminates by itself with this exit code.
ChildExit(p, exit_code) ==
    /\ child[p].state = "running"
    /\ child' = [child EXCEPT ![p] =
            [@ EXCEPT !.state = "zombie", !.exit_code = <<exit_code>>]]
    /\ UNCHANGED <<unit, processes, nextPid, monitor, reader, events, call, ncalls>>

\* ------------------------------------------------ exit monitor task
\* child.wait().await completes and reaps the child.
MonitorWait(p) ==
    /\ monitor[p] = "waiting"
    /\ child[p].state = "zombie"
    /\ child' = [child EXCEPT ![p] = [@ EXCEPT !.state = "reaped"]]
    /\ monitor' = [monitor EXCEPT ![p] = "exited"]
    /\ UNCHANGED <<unit, processes, nextPid, reader, events, call, ncalls>>

\* processes.remove(&app_id_monitor) under the lock.
MonitorRemove(p) ==
    /\ monitor[p] = "exited"
    /\ processes' = [processes EXCEPT ![child[p].app_id] = None]
    /\ monitor' = [monitor EXCEPT ![p] = "removed"]
    /\ UNCHANGED <<unit, child, nextPid, reader, events, call, ncalls>>

\* The hint for the exit code: status.code() is Some(code) or None.
exit_message(exit_code) ==
    CASE exit_code = <<127>> -> "OddLauncher: Process exited with code 127 (Command not found - check if executable exists in PATH)"
      [] exit_code = <<126>> -> "OddLauncher: Process exited with code 126 (Permission denied - executable not permitted to run)"
      [] exit_code = <<1>> -> "OddLauncher: Process exited with code 1 (General error - check command syntax and arguments)"
      [] exit_code = <<2>> -> "OddLauncher: Process exited with code 2 (Misuse of shell builtins - check command usage)"
      [] exit_code = <<130>> -> "OddLauncher: Process exited with code 130 (Process terminated by Ctrl+C)"
      [] exit_code = <<>> -> "OddLauncher: Process exited (no exit code available)"
      [] OTHER -> "OddLauncher: Process exited with code " \o ToString(exit_code[1])

\* "exitCode" of the process-exit payload as JSON: the number, or null
ExitCodeJson(exit_code) ==
    IF exit_code = <<>> THEN "null" ELSE ToString(exit_code[1])

\* Faulty variant: the closing notification without the output line.
MonitorEmit_NoOutputLine(p) ==
    /\ monitor[p] = "removed"
    /\ events' = Emit(p,
            <<Event("process-exit", child[p].app_id, 0,
                    ExitCodeJson(child[p].exit_code), "monitor")>>)
    /\ monitor' = [monitor EXCEPT ![p] = "done"]
    /\ UNCHANGED <<unit, processes, child, nextPid, reader, call, ncalls>>

\* emit("process-output") with the exit-code hint, then emit("process-exit");
\* child.wait() of a child of this process does not fail.
MonitorEmit(p) ==
    /\ monitor[p] = "removed"
    /\ events' = Emit(p,
            <<Event("process-output", child[p].app_id, 0,
                    exit_message(child[p].exit_code), "monitor"),
              Event("process-exit", child[p].app_id, 0,
                    ExitCodeJson(child[p].exit_code), "monitor")>>)
    /\ monitor' = [monitor EXCEPT ![p] = "done"]
    /\ UNCHANGED <<unit, processes, child, nextPid, reader, call, ncalls>>
\* -------------------------------------------------- stop_app_process
NotFound ==
    ProcessResult(FALSE, Text("Process not found or not running", <<>>), 0,
                  Text("Process not found", <<>>))

\* format!("{} to group failed: {}", name, err)
GroupFailed(sig) == Text("{} to group failed: {}", <<sig, "ESRCH">>)

StopTimeout(sig) == IF sig = "SIGKILL" THEN StopKillMs ELSE StopIntTermMs

\* Faulty variant: the result reports success whatever the ladder found.
StopResult_AlwaysSuccess(success, last_error, pid) ==
    ProcessResult(TRUE, Text("Process stopped successfully", <<>>), pid, NoError)

\* Faulty variant: a failed ladder always reports the timeout message.
StopResult_TimeoutOnly(success, last_error, pid) ==
    IF success
    THEN ProcessResult(TRUE, Text("Process stopped successfully", <<>>), pid, NoError)
    ELSE ProcessResult(FALSE, Text("Failed to stop process within timeout", <<>>), pid,
                       Text("Failed to stop process within timeout", <<>>))

\* The result stop builds after the ladder.
StopResult(success, last_error, pid) ==
    IF success
    THEN ProcessResult(TRUE, Text("Process stopped successfully", <<>>), pid, NoError)
    ELSE LET error_msg == IF last_error # NoError THEN last_error
                          ELSE Text("Failed to stop process within timeout", <<>>)
         IN ProcessResult(FALSE, error_msg, pid, error_msg)

\* Faulty variant: a stop that finds no record still publishes "process-stopped".
StopNotFound_Emits(c, a) ==
    /\ call' = [call EXCEPT ![c] =
            [Begin(c, "stop", a, "done") EXCEPT !.ret = NotFound]]
    /\ events' = Emit(0, <<Event("process-stopped", a, 0, "", c)>>)
    /\ UNCHANGED processes

\* processes.remove(&app_id) returned None: stop returns at once.
StopNotFound(c, a) ==
    /\ call' = [call EXCEPT ![c] =
            [Begin(c, "stop", a, "done") EXCEPT !.ret = NotFound]]
    /\ UNCHANGED <<unit, processes, events>>

\* Faulty variant: the record is read and left in the registry.
StopTake_KeepsRecord(c, a) ==
    /\ call' = [call EXCEPT ![c] =
            [Begin(c, "stop", a, "signal") EXCEPT
                !.idx = 1, !.pid = processes[a].pid, !.pgid = processes[a].pgid]]
    /\ UNCHANGED <<processes, events>>

\* Faulty variant: the notification is emitted inside the lock's scope.
StopTake_EmitsInScope(c, a) ==
    /\ processes' = [processes EXCEPT ![a] = None]
    /\ call' = [call EXCEPT ![c] =
            [Begin(c, "stop", a, "signal") EXCEPT
                !.idx = 1, !.pid = processes[a].pid, !.pgid = processes[a].pgid]]
    /\ events' = Emit(processes[a].pid,
            <<Event("process-stopped", a, processes[a].pid, "", c)>>)

\* processes.remove(&app_id) returned the record: the ladder starts.
StopTake(c, a) ==
    /\ processes' = [processes EXCEPT ![a] = None]
    /\ call' = [call EXCEPT ![c] =
            [Begin(c, "stop", a, "signal") EXCEPT
                !.idx = 1, !.pid = processes[a].pid, !.pgid = processes[a].pgid]]
    /\ UNCHANGED events

\* The call and processes.remove(&app_id) under the lock.
StopPop(c, a) ==
    /\ MayCall(c)
    /\ ncalls = 0 => a = FirstApp
    /\ ncalls' = ncalls + 1
    /\ IF processes[a] = None THEN StopNotFound(c, a) ELSE StopTake(c, a)
    /\ UNCHANGED <<unit, child, nextPid, monitor, reader>>

\* libc::kill(-pgid, sig) for the ladder's current step.
StopSignal(c) ==
    /\ call[c].cmd = "stop" /\ call[c].pc = "signal"
    /\ LET sig == targets[call[c].idx]
       IN \E group \in GroupOutcomes(call[c].group) :
          \E dying \in SUBSET Running(call[c].pgid, group) :
             /\ child' = Killed(dying)
             /\ call' = [call EXCEPT ![c] =
                   [@ EXCEPT !.pc = "wait", !.elapsed = 0,
                             !.sent = Append(@, sig),
                             !.rcs = Append(@, KillRc(call[c].pgid, group)),
                             !.group = group,
                             !.hit = IF dying # {} THEN sig ELSE @,
                             !.last_error =
                                 IF KillRc(call[c].pgid, group) # 0
                                 THEN GroupFailed(sig) ELSE @]]
    /\ UNCHANGED <<unit, processes, nextPid, monitor, reader, events, ncalls>>

\* Faulty variant: the break after a successful wait is missing.
StopAfterWait_NoBreak(st, gone) ==
    [st EXCEPT !.pc = IF st.idx < Len(targets) THEN "signal" ELSE "report",
               !.idx = IF st.idx < Len(targets) THEN @ + 1 ELSE @,
               !.success = gone \/ @,
               !.elapsed = 0,
               !.waits = Append(@, gone)]

\* What follows the return of wait_for_exit: success and break when the
\* process is gone, otherwise the next step of the ladder, if any.
StopAfterWait(st, gone) ==
    IF gone
    THEN [st EXCEPT !.pc = "report", !.success = TRUE, !.elapsed = 0,
                    !.waits = Append(@, TRUE)]
    ELSE [st EXCEPT !.pc = IF st.idx < Len(targets) THEN "signal" ELSE "report",
                    !.idx = IF st.idx < Len(targets) THEN @ + 1 ELSE @,
                    !.elapsed = 0,
                    !.waits = Append(@, FALSE)]

\* One iteration of wait_for_exit(pid, timeout), and what follows its return.
StopWait(c) ==
    /\ call[c].cmd = "stop" /\ call[c].pc = "wait"
    /\ LET sig  == targets[call[c].idx]
           poll == WaitPoll(call[c].pid, call[c].elapsed, StopTimeout(sig))
       IN IF poll = "sleep"
          THEN \E e \in AfterSleep(call[c].elapsed, StopTimeout(sig)) :
                  call' = [call EXCEPT ![c] = [@ EXCEPT !.elapsed = e]]
          ELSE call' = [call EXCEPT ![c] = StopAfterWait(@, poll = "exited")]
    /\ UNCHANGED <<unit, processes, child, nextPid, monitor, reader, events, ncalls>>

\* Faulty variant: the notifications are published only for a successful stop.
StopEvents_OnSuccessOnly(c) ==
    IF call[c].success
    THEN <<Event("process-stopped", call[c].app_id, call[c].pid, "", c),
           Event("process-output", call[c].app_id, 0, "OddLauncher: Process stopped", c)>>
    ELSE <<>>

\* emit("process-stopped") and emit("process-output") after the ladder.
StopEvents(c) ==
    <<Event("process-stopped", call[c].app_id, call[c].pid, "", c),
      Event("process-output", call[c].app_id, 0, "OddLauncher: Process stopped", c)>>

\* The result is built, the two notifications are emitted, and stop returns.
StopReport(c) ==
    /\ call[c].cmd = "stop" /\ call[c].pc = "report"
    /\ events' = Emit(call[c].pid, StopEvents(c))
    /\ call' = [call EXCEPT ![c] =
            Return(c, StopResult(call[c].success, call[c].last_error, call[c].pid))]
    /\ UNCHANGED <<unit, processes, child, nextPid, monitor, reader, ncalls>>

\* ------------------------------------------------ kill_all_processes
KillAllTimeout(sig) == IF sig = "SIGKILL" THEN KillAllKillMs ELSE KillAllTermMs

KillAllResult(killed_count, failed_count) ==
    ProcessResult(failed_count = 0,
                  Text("Killed {} processes, {} failed", <<killed_count, failed_count>>),
                  0,
                  IF failed_count > 0
                  THEN Text("{} processes failed to stop", <<failed_count>>)
                  ELSE NoError)

\* The orders in which HashMap::drain can yield the entries of the registry.
DrainOrders ==
    LET present == {a \in AppIds : processes[a] # None}
    IN {f \in [1..Cardinality(present) -> present] :
            \A i, j \in DOMAIN f : f[i] = f[j] => i = j}

\* The call and processes.drain().collect() under the lock.
KillAllDrain(c) ==
    /\ MayCall(c)
    /\ ncalls' = ncalls + 1
    /\ \E order \in DrainOrders :
          call' = [call EXCEPT ![c] =
              [Begin(c, "kill_all", "", IF Len(order) = 0 THEN "return" ELSE "signal")
                 EXCEPT !.idx = 1, !.sig = 1,
                        !.processes_to_kill =
                            [i \in DOMAIN order |->
                                [app_id |-> order[i], pid |-> processes[order[i]].pid,
                                 pgid |-> processes[order[i]].pgid]]]]
    /\ processes' = [a \in AppIds |-> None]
    /\ UNCHANGED <<unit, child, nextPid, monitor, reader, events>>

\* libc::kill(-pgid, sig) for the current record and step; the return code
\* is dropped.
KillAllSignal(c) ==
    /\ call[c].cmd = "kill_all" /\ call[c].pc = "signal"
    /\ LET rec == call[c].processes_to_kill[call[c].idx]
           sig == killall_targets[call[c].sig]
       IN \E group \in GroupOutcomes(call[c].group) :
          \E dying \in SUBSET Running(rec.pgid, group) :
             /\ child' = Killed(dying)
             /\ call' = [call EXCEPT ![c] =
                   [@ EXCEPT !.pc = "wait", !.elapsed = 0, !.group = group,
                             !.sent = Append(@, <<rec.pid, sig>>)]]
    /\ UNCHANGED <<unit, processes, nextPid, monitor, reader, events, ncalls>>

\* The loop moves on to the next drained record, or to the return.
KillAllNext(ka) ==
    IF ka.idx < Len(ka.processes_to_kill)
    THEN [ka EXCEPT !.pc = "signal", !.idx = @ + 1, !.sig = 1, !.elapsed = 0,
                    !.group = "unknown"]
    ELSE [ka EXCEPT !.pc = "return", !.elapsed = 0, !.group = "unknown"]

\* Faulty variant: a process that failed to die is not counted.
Tally_DropsFailures(ka, stopped) ==
    [ka EXCEPT !.killed_count = IF stopped THEN @ + 1 ELSE @,
               !.waits = Append(@, stopped)]

\* killed_count += 1 or failed_count += 1 (waits keeps each record's outcome)
Tally(ka, stopped) ==
    [ka EXCEPT !.killed_count = IF stopped THEN @ + 1 ELSE @,
               !.failed_count = IF stopped THEN @ ELSE @ + 1,
               !.waits = Append(@, stopped)]

\* One iteration of wait_for_exit_any(pid, timeout), and what follows its
\* return: the next signal, or the tally (and "process-stopped") for this record.
KillAllWait(c) ==
    /\ call[c].cmd = "kill_all" /\ call[c].pc = "wait"
    /\ LET rec  == call[c].processes_to_kill[call[c].idx]
           sig  == killall_targets[call[c].sig]
           poll == WaitPoll(rec.pid, call[c].elapsed, KillAllTimeout(sig))
       IN CASE poll = "exited" ->
                 /\ call' = [call EXCEPT ![c] = KillAllNext(Tally(@, TRUE))]
                 /\ events' = Emit(rec.pid,
                        <<Event("process-stopped", rec.app_id, rec.pid, "", c)>>)
            [] poll = "timeout" /\ call[c].sig < Len(killall_targets) ->
                 /\ call' = [call EXCEPT ![c] =
                        [@ EXCEPT !.pc = "signal", !.sig = @ + 1, !.elapsed = 0]]
                 /\ UNCHANGED events
            [] poll = "timeout" /\ call[c].sig = Len(killall_targets) ->
                 /\ call' = [call EXCEPT ![c] = KillAllNext(Tally(@, FALSE))]
                 /\ UNCHANGED events
            [] OTHER ->
                 /\ \E e \in AfterSleep(call[c].elapsed, KillAllTimeout(sig)) :
                        call' = [call EXCEPT ![c] = [@ EXCEPT !.elapsed = e]]
                 /\ UNCHANGED events
    /\ UNCHANGED <<unit, processes, child, nextPid, monitor, reader, ncalls>>

KillAllReturn(c) ==
    /\ call[c].cmd = "kill_all" /\ call[c].pc = "return"
    /\ call' = [call EXCEPT ![c] =
            Return(c, KillAllResult(call[c].killed_count, call[c].failed_count))]
    /\ UNCHANGED <<unit, processes, child, nextPid, monitor, reader, events, ncalls>>

\* ------------------------------------------------------------- strings
\* A string is the sequence of its pieces.  A piece is one separator
\* character or a run of characters that holds no separator, so that
\* <<"/", "home", "/", "u">> is /home/u and <<"u", "u">> is the one name uu.
BS == "\\"
FS == "/"

Slice(s, first) == SubSeq(s, first, Len(s))

\* str::starts_with
StartsWith(s, prefix) ==
    Len(s) >= Len(prefix) /\ SubSeq(s, 1, Len(prefix)) = prefix

\* str::contains(char)
Contains(s, ch) == \E i \in DOMAIN s : s[i] = ch

\* str::replace: every match, found from the left, matches do not overlap.
RECURSIVE Replace(_, _, _)
Replace(s, from, to) ==
    IF s = <<>> THEN <<>>
    ELSE IF StartsWith(s, from)
         THEN to \o Replace(Slice(s, Len(from) + 1), from, to)
         ELSE <<Head(s)>> \o Replace(Tail(s), from, to)

\* str::split(&['\\', '/'][..]): the strings between the separators, the
\* empty ones included; a string without a separator is its only part.
RECURSIVE Split(_)
Split(s) ==
    IF \E i \in DOMAIN s : s[i] \in {BS, FS}
    THEN LET i == CHOOSE k \in DOMAIN s :
                      /\ s[k] \in {BS, FS}
                      /\ \A j \in 1..(k - 1) : s[j] \notin {BS, FS}
         IN <<SubSeq(s, 1, i - 1)>> \o Split(Slice(s, i + 1))
    ELSE <<s>>

\* [&str]::join(sep)
RECURSIVE Join(_, _)
Join(parts, sep) ==
    IF parts = <<>> THEN <<>>
    ELSE IF Len(parts) = 1 THEN parts[1]
    ELSE parts[1] \o sep \o Join(Tail(parts), sep)

\* Result<String, String>
Ok(value) == [ok |-> TRUE, value |-> value, error |-> Text("", <<>>)]
Err(error) == [ok |-> FALSE, value |-> <<>>, error |-> error]

\* --------------------------------------------------- platform_utils
WslBack == <<BS, BS, "wsl.localhost", BS>>
WslFwd  == <<FS, FS, "wsl.localhost", FS>>

IsWslNetworkPath(path) == StartsWith(path, WslBack) \/ StartsWith(path, WslFwd)

convert_wsl_network_path(path) ==
    LET cleaned == Replace(Replace(path, WslBack, <<>>), WslFwd, <<>>)
        parts   == Split(cleaned)
    IN IF Len(parts) < 2
       THEN Err(Text("Invalid WSL path format: {}", <<path>>))
       ELSE Ok(<<FS>> \o Join(Tail(parts), <<FS>>))

\* The branch of a target that is not Windows.
normalize_path(path) ==
    IF IsWslNetworkPath(path) THEN convert_wsl_network_path(path)
    ELSE IF Contains(path, BS) THEN Ok(Replace(path, <<BS>>, <<FS>>))
    ELSE Ok(path)

\* The paths the evaluations start from: up to MaxChunks chunks, each one
\* piece or one whole network prefix.
Chunks == {<<BS>>, <<FS>>, <<"wsl.localhost">>, <<"u">>, WslBack, WslFwd}

RECURSIVE Concat(_)
Concat(ss) == IF ss = <<>> THEN <<>> ELSE Head(ss) \o Concat(Tail(ss))

Paths == UNION {{Concat(cs) : cs \in [1..n -> Chunks]} : n \in 0..MaxChunks}

\* normalize_path(path), and normalize_path of its result.
UnitPath(path, pc, once, twice) ==
    [fn |-> "normalize_path", path |-> path, pc |-> pc, once |-> once, twice |-> twice]

InitPath ==
    /\ InitSupervisor
    /\ unit \in {UnitPath(p, "call", Ok(<<>>), Ok(<<>>)) : p \in Paths}

NormalizeOnce ==
    /\ unit.fn = "normalize_path" /\ unit.pc = "call"
    /\ unit' = [unit EXCEPT !.pc = "once", !.once = normalize_path(unit.path)]
    /\ UNCHANGED supervisor

NormalizeTwice ==
    /\ unit.fn = "normalize_path" /\ unit.pc = "once" /\ unit.once.ok
    /\ unit' = [unit EXCEPT !.pc = "twice", !.twice = normalize_path(unit.once.value)]
    /\ UNCHANGED supervisor

NextPath == NormalizeOnce \/ NormalizeTwice

SpecPath == InitPath /\ [][NextPath]_vars


\* -------------------------------------------------------- terminal.rs
\* In the drive-letter conversions a string is the sequence of its
\* characters.  "U+00E9" and "U+4E2D" are characters of two and three bytes.
Chars == {"C", ":", BS, FS, "x", "U+00E9", "U+4E2D"}

WinPaths == UNION {[1..n -> Chars] : n \in 0..MaxChars}

\* char::len_utf8
Utf8Len(ch) == IF ch = "U+00E9" THEN 2 ELSE IF ch = "U+4E2D" THEN 3 ELSE 1

\* str::len: the length in bytes
RECURSIVE ByteLen(_)
ByteLen(s) == IF s = <<>> THEN 0 ELSE Utf8Len(Head(s)) + ByteLen(Tail(s))

\* char::to_lowercase
ToLowercase(ch) == IF ch = "C" THEN <<"c">> ELSE <<ch>>

\* A String returned, or the panic of the thread
Returned(value) == [panic |-> FALSE, value |-> value]
Panicked == [panic |-> TRUE, value |-> <<>>]

\* &s[n..]: the string from byte n on; it panics when byte n is not a
\* character boundary.
RECURSIVE ByteSlice(_, _)
ByteSlice(s, n) ==
    IF n = 0 THEN Returned(s)
    ELSE IF s = <<>> \/ Utf8Len(Head(s)) > n THEN Panicked
    ELSE ByteSlice(Tail(s), n - Utf8Len(Head(s)))

\* windows_path.len() >= 3 && windows_path.chars().nth(1) == Some(':')
HasDrive(windows_path) ==
    ByteLen(windows_path) >= 3 /\ Len(windows_path) >= 2 /\ windows_path[2] = ":"

\* format!("{prefix}{}{}", drive, rest) of both conversions
DrivePath(prefix, windows_path) ==
    LET drive == ToLowercase(windows_path[1])
        rest  == ByteSlice(windows_path, 2)
    IN IF rest.panic THEN Panicked
       ELSE Returned(prefix \o drive \o Replace(rest.value, <<BS>>, <<FS>>))

convert_to_unix_path(windows_path) ==
    IF HasDrive(windows_path)
    THEN DrivePath(<<FS>>, windows_path)
    ELSE Returned(Replace(windows_path, <<BS>>, <<FS>>))

convert_to_wsl_path(windows_path) ==
    IF HasDrive(windows_path)
    THEN DrivePath(<<FS, "m", "n", "t", FS>>, windows_path)
    ELSE Returned(Replace(windows_path, <<BS>>, <<FS>>))

NotCalled == [panic |-> FALSE, value |-> <<"(not called)">>]

InitTerminal ==
    /\ InitSupervisor
    /\ unit \in {[fn |-> "convert_path", windows_path |-> p,
                  unix |-> NotCalled, wsl |-> NotCalled] : p \in WinPaths}

ConvertToUnixPath ==
    /\ unit.fn = "convert_path" /\ unit.unix = NotCalled
    /\ unit' = [unit EXCEPT !.unix = convert_to_unix_path(unit.windows_path)]
    /\ UNCHANGED supervisor

ConvertToWslPath ==
    /\ unit.fn = "convert_path" /\ unit.wsl = NotCalled
    /\ unit' = [unit EXCEPT !.wsl = convert_to_wsl_path(unit.windows_path)]
    /\ UNCHANGED supervisor

NextTerminal == ConvertToUnixPath \/ ConvertToWslPath

SpecTerminal == InitTerminal /\ [][NextTerminal]_vars


\* ------------------------------------------------- command composition
\* A command line is the sequence of its words and of the blanks between
\* them; launch_commands is given as launch_commands.lines().
Option(value) == [some |-> TRUE, value |-> value]
Absent == [some |-> FALSE, value |-> <<>>]

\* str::trim
RECURSIVE TrimStart(_)
TrimStart(s) == IF s # <<>> /\ Head(s) = " " THEN TrimStart(Tail(s)) ELSE s

\* str::trim_end: blanks and line terminators are white space.
RECURSIVE TrimEnd(_)
TrimEnd(s) ==
    IF s # <<>> /\ s[Len(s)] \in {" ", "\n"}
    THEN TrimEnd(SubSeq(s, 1, Len(s) - 1)) ELSE s

Trim(s) == TrimEnd(TrimStart(s))

\* str::split_whitespace
IsWord(piece) == piece # " "
SplitWhitespace(s) == SelectSeq(s, IsWord)

\* launch_commands.lines().map(|line| line.trim()).filter(|line| !line.is_empty())
NotEmpty(line) == line # <<>>
CommandLines(launch_commands) ==
    SelectSeq([i \in DOMAIN launch_commands |-> Trim(launch_commands[i])], NotEmpty)

\* launch_commands as the one string it is
UserCommands(launch_commands) ==
    Join(launch_commands, <<"\n">>)

\* Faulty variant: the whole line is the program.
prepare_command_WholeLine(command) ==
    IF Trim(command) = <<>> THEN Err(Text("Command cannot be empty", <<>>))
    ELSE Ok([program |-> Trim(command), args |-> <<>>])

\* platform_utils::prepare_command where the target is not Windows
prepare_command(command) ==
    LET parts == SplitWhitespace(Trim(command))
    IN IF parts = <<>> THEN Err(Text("Command cannot be empty", <<>>))
       ELSE Ok([program |-> <<parts[1]>>,
                args |-> [i \in 1..(Len(parts) - 1) |-> <<parts[i + 1]>>]])

\* The fixed head of the script that the WSL strategy builds
WslScriptHead ==
    << <<"#!/bin/bash">>, <<"set -e">>, <<>>,
       <<"# Clean PATH to avoid Windows executable conflicts">>,
       <<"export PATH=\"$(echo $PATH | tr ':' '\\n' | grep -v '^/mnt/c' | tr '\\n' ':' | sed 's/:$//')\"">>,
       <<>>,
       <<"# Add standard Linux paths">>,
       <<"export PATH=\"/usr/local/bin:/usr/bin:/bin:/usr/local/sbin:/usr/sbin:/sbin:$PATH\"">>,
       <<>>,
       <<"# Add user bin directories">>,
       <<"[ -d \"$HOME/.local/bin\" ] && export PATH=\"$HOME/.local/bin:$PATH\"">>,
       <<"[ -d \"$HOME/bin\" ] && export PATH=\"$HOME/bin:$PATH\"">>,
       <<>>,
       <<"# Initialize shell environment">>,
       <<"source /etc/profile 2>/dev/null || true">>,
       <<"source ~/.profile 2>/dev/null || true">>,
       <<"source ~/.bashrc 2>/dev/null || true">>,
       <<>>,
       <<"# Initialize version managers">>,
       <<"if [ -f ~/.nvm/nvm.sh ]; then source ~/.nvm/nvm.sh; fi">>,
       <<"if command -v rbenv >/dev/null 2>&1; then eval \"$(rbenv init -)\"; fi">>,
       <<>> >>

\* Faulty variant: the selector is taken as the shell whatever it is.
UnixShell_AsGiven(terminal_type) == terminal_type

\* The shell of the last arm of get_terminal_command's match
UnixShell(terminal_type) ==
    IF terminal_type \in {<<"zsh">>, <<"fish">>, <<"sh">>}
    THEN terminal_type ELSE <<"bash">>

\* get_terminal_command: the program and its arguments, or the panic of a
\* drive conversion.  A working directory is the sequence of its characters
\* where a conversion reads it (its pieces are single characters up to the
\* second one).
get_terminal_command(terminal_type, launch_commands, working_dir) ==
    LET user_commands == UserCommands(launch_commands)
        dir == working_dir.value
    IN CASE terminal_type = <<"cmd">> ->
              Returned(<< <<"cmd.exe">>, <<"/c">>,
                          IF working_dir.some
                          THEN <<"cd /d \"">> \o dir \o <<"\" && ">> \o user_commands
                          ELSE user_commands >>)
         [] terminal_type \in {<<"powershell">>, <<"pwsh">>} ->
              Returned(<< IF terminal_type = <<"pwsh">> THEN <<"pwsh.exe">>
                          ELSE <<"powershell.exe">>,
                          <<"-Command">>,
                          (IF working_dir.some
                           THEN <<"Set-Location -Path '">> \o dir \o <<"'; ">>
                           ELSE <<>>) \o user_commands >>)
         [] terminal_type = <<"gitbash">> ->
              IF working_dir.some /\ convert_to_unix_path(dir).panic THEN Panicked
              ELSE Returned(<< <<"bash.exe">>, <<"-c">>,
                          (IF working_dir.some
                           THEN <<"cd '">> \o convert_to_unix_path(dir).value \o <<"' && ">>
                           ELSE <<>>) \o user_commands >>)
         [] terminal_type = <<"wsl">> ->
              IF working_dir.some /\ convert_to_wsl_path(dir).panic THEN Panicked
              ELSE Returned(<< <<"wsl.exe">>, <<"bash">>, <<"-c">>,
                          Join(WslScriptHead
                               \o (IF working_dir.some
                                   THEN << <<"cd '">> \o convert_to_wsl_path(dir).value
                                               \o <<"'">>,
                                           <<>> >>
                                   ELSE <<>>)
                               \o <<user_commands>>,
                               <<"\n">>) >>)
         [] OTHER ->
              Returned(<< UnixShell(terminal_type), <<"-c">>,
                          (IF working_dir.some
                           THEN <<"cd '">> \o dir \o <<"' && ">>
                           ELSE <<>>) \o user_commands >>)

\* cmd.contains("nvm ") || first_word == "nvm", and the same for rbenv
Needs(manager, commands) ==
    \E i \in DOMAIN commands :
        \/ SplitWhitespace(commands[i])[1] = manager
        \/ \E k \in 1..(Len(commands[i]) - 1) :
              commands[i][k] = manager /\ commands[i][k + 1] = " "

NvmInit ==
    << <<"# Initialize nvm if available">>,
       <<"if [ -f ~/.nvm/nvm.sh ]; then">>,
       <<"  source ~/.nvm/nvm.sh">>,
       <<"elif [ -f /usr/local/share/nvm/nvm.sh ]; then">>,
       <<"  source /usr/local/share/nvm/nvm.sh">>,
       <<"elif [ -f /opt/homebrew/opt/nvm/nvm.sh ]; then">>,
       <<"  source /opt/homebrew/opt/nvm/nvm.sh">>,
       <<"fi">> >>

RbenvInit ==
    << <<"# Initialize rbenv if available">>,
       <<"if command -v rbenv >/dev/null 2>&1; then">>,
       <<"  eval \"$(rbenv init -)\"">>,
       <<"fi">> >>

\* Faulty variant: the script does not begin with set -e.
ScriptHead_NoSetE ==
    << <<"#!/bin/bash">>, <<"echo \"OddLauncher: Starting app process...\"">> >>

ScriptHead ==
    << <<"#!/bin/bash">>, <<"set -e">>,
       <<"echo \"OddLauncher: Starting app process...\"">> >>

TraceLine(i, command) ==
    <<"echo \"OddLauncher: Executing command ", ToString(i), ": ">> \o command \o <<"\"">>

\* for (i, command) in commands.iter().enumerate(): the trace line, the command
RECURSIVE ExecutionFrom(_, _)
ExecutionFrom(commands, i) ==
    IF i > Len(commands) THEN <<>>
    ELSE <<TraceLine(i, commands[i]), commands[i]>> \o ExecutionFrom(commands, i + 1)

Execution(commands) == ExecutionFrom(commands, 1)

prepare_unix_multi_command(commands, working_dir) ==
    LET init == (IF Needs("nvm", commands) THEN NvmInit ELSE <<>>)
                \o (IF Needs("rbenv", commands) THEN RbenvInit ELSE <<>>)
        dir  == IF working_dir.some THEN normalize_path(working_dir.value) ELSE Ok(<<>>)
        cd   == IF working_dir.some
                THEN << <<"echo \"OddLauncher: Changing to working directory: ">>
                            \o dir.value \o <<"\"">>,
                        <<"cd '">> \o dir.value \o <<"'">> >>
                ELSE <<>>
        script_lines == ScriptHead \o init \o cd \o Execution(commands)
    IN IF ~dir.ok THEN Err(dir.error)
       ELSE Ok([program |-> <<"bash">>,
                args |-> << <<"-c">>, Join(script_lines, <<"\n">>) >>])

\* The call does not return: the thread panicked.
Panic == [ok |-> FALSE, value |-> <<>>, error |-> Text("(panic)", <<>>)]

prepare_multi_command_execution(launch_commands, working_dir, terminal_type) ==
    LET command_args ==
            IF terminal_type.some
            THEN get_terminal_command(terminal_type.value, launch_commands, working_dir)
            ELSE Returned(<<>>)
        commands == CommandLines(launch_commands)
    IN IF command_args.panic THEN Panic
       ELSE IF terminal_type.some /\ Len(command_args.value) >= 2
       THEN Ok([program |-> command_args.value[1], args |-> Tail(command_args.value)])
       ELSE IF commands = <<>> THEN Err(Text("No valid commands found", <<>>))
       ELSE IF Len(commands) = 1 THEN prepare_command(commands[1])
       ELSE prepare_unix_multi_command(commands, working_dir)

\* The inputs of the composition
InputLines ==
    {<<>>, <<" ">>, <<"run">>, <<" ", "nvm", " ", "use", " ">>, <<"rbenv", " ", "exec">>}

LaunchCommands == UNION {[1..n -> InputLines] : n \in 0..MaxLines}

WorkingDirs ==
    {Absent, Option(<<FS, "u">>), Option(<<BS, "u">>),
     Option(WslFwd \o <<"u", FS, "u">>), Option(WslFwd \o <<"u">>),
     Option(<<"C", ":", BS, "u">>), Option(<<"U+4E2D", ":", BS, "u">>)}

TerminalTypes ==
    {Absent} \cup {Option(<<t>>) :
                     t \in {"cmd", "powershell", "pwsh", "gitbash", "wsl",
                            "bash", "zsh", "fish", "sh", "", "ksh"}}

InitCompose ==
    /\ InitSupervisor
    /\ unit \in {[fn |-> "prepare_multi_command_execution", pc |-> "call",
                  launch_commands |-> l, working_dir |-> d, terminal_type |-> t,
                  result |-> Ok(<<>>)] :
                 l \in LaunchCommands, d \in WorkingDirs, t \in TerminalTypes}

Compose ==
    /\ unit.fn = "prepare_multi_command_execution" /\ unit.pc = "call"
    /\ unit' = [unit EXCEPT !.pc = "done",
                   !.result = prepare_multi_command_execution(
                                  unit.launch_commands, unit.working_dir,
                                  unit.terminal_type)]
    /\ UNCHANGED supervisor

NextCompose == Compose

SpecCompose == InitCompose /\ [][NextCompose]_vars


\* ---------------------------------------------------------- browser.rs
\* A URL is the sequence of its pieces: a scheme prefix, a percent escape, or
\* a run of other characters.
UrlPieces == {"http://", "https://", "file://", "ftp://", "/mnt/", "a", "%20", "%C3", "%A9", "%FF"}

Urls == UNION {[1..n -> UrlPieces] : n \in 0..MaxUrlLen}

\* Result<String, String>
Opened(message) == [ok |-> TRUE, message |-> message]
Failed(message) == [ok |-> FALSE, message |-> message]

\* Faulty variant: every URL passes the validation.
ValidScheme_Any(url) == TRUE

\* url.starts_with("http://") || url.starts_with("https://") || url.starts_with("file://")
ValidScheme(url) ==
    StartsWith(url, <<"http://">>) \/ StartsWith(url, <<"https://">>)
        \/ StartsWith(url, <<"file://">>)

\* str::strip_prefix(..).unwrap_or(..)
StripPrefix(s, prefix) == IF StartsWith(s, prefix) THEN Slice(s, Len(prefix) + 1) ELSE s

\* The url without file://, or without file://file://
FilePath(url) == StripPrefix(StripPrefix(url, <<"file://">>), <<"file://">>)

\* urlencoding::decode, first half: every escape becomes its byte.  The bytes
\* are kept by class: a lead byte of a two-byte sequence, a continuation
\* byte, a byte no UTF-8 text holds, or ASCII.
PercentDecode(s) ==
    [i \in DOMAIN s |->
        CASE s[i] = "%C3" -> "lead2"
          [] s[i] = "%A9" -> "continuation"
          [] s[i] = "%FF" -> "invalid"
          [] OTHER -> "ascii"]

\* urlencoding::decode, second half: String::from_utf8 on the bytes
RECURSIVE Utf8Valid(_)
Utf8Valid(bytes) ==
    IF bytes = <<>> THEN TRUE
    ELSE IF Head(bytes) = "ascii" THEN Utf8Valid(Tail(bytes))
    ELSE IF Head(bytes) = "lead2"
         THEN Len(bytes) >= 2 /\ bytes[2] = "continuation" /\ Utf8Valid(Slice(bytes, 3))
    ELSE FALSE

\* decoded_path.starts_with("/mnt/") || looks_like_drive; no URL of Urls
\* holds a drive letter.
IsWindowsPath(file_path) == StartsWith(file_path, <<"/mnt/">>)

\* What open_url_in_browser returns before it runs any opener, if it does.
Rejection(url) ==
    IF ~ValidScheme(url)
    THEN Failed(Text("Invalid URL format. Must start with http://, https://, or file://", <<>>))
    ELSE IF StartsWith(url, <<"file://">>) /\ ~Utf8Valid(PercentDecode(FilePath(url)))
    THEN Failed(Text("Failed to decode file path: {}", <<<<"invalid utf-8 sequence">>>>))
    ELSE Opened(Text("", <<>>))

\* Command::status() of an opener: it exited with success, it exited with
\* another code, or it could not be run.
Statuses == {"success", "failure", "error"}

\* Faulty variant: an opener's success does not end the sequence.
NextOpener_GoesOn(url, is_wsl, spawned, status) ==
    IF ~is_wsl THEN (IF spawned = <<>> THEN "xdg-open" ELSE "none")
    ELSE IF spawned = <<>> THEN "wslview"
    ELSE IF ~StartsWith(url, <<"file://">>)
         THEN (IF Len(spawned) = 1 THEN "powershell.exe" ELSE "none")
    ELSE IF IsWindowsPath(FilePath(url))
         THEN (IF Len(spawned) = 1 THEN "powershell.exe" ELSE "none")
    ELSE IF Len(spawned) = 1 THEN "xdg-open"
    ELSE IF Len(spawned) = 2 THEN "wslview"
    ELSE "none"

\* The opener to run next on a target that is Linux, after the openers in
\* `spawned` of which the last ended with `status`; "none": no more opener.
NextOpener(url, is_wsl, spawned, status) ==
    IF spawned # <<>> /\ status = "success" THEN "none"
    ELSE IF ~is_wsl THEN (IF spawned = <<>> THEN "xdg-open" ELSE "none")
    ELSE IF spawned = <<>> THEN "wslview"
    ELSE IF ~StartsWith(url, <<"file://">>)
         THEN (IF Len(spawned) = 1 THEN "powershell.exe" ELSE "none")
    ELSE IF IsWindowsPath(FilePath(url))
         THEN (IF Len(spawned) = 1 THEN "powershell.exe" ELSE "none")
    ELSE IF Len(spawned) = 1 THEN "xdg-open"
    ELSE IF Len(spawned) = 2 THEN "wslview"
    ELSE "none"

\* match result { .. }
OpenResult(url, status) ==
    CASE status = "success" -> Opened(Text("Successfully opened {}", <<url>>))
      [] status = "failure" ->
            Failed(Text("Failed to open URL {}: process exited with code {:?}", <<url>>))
      [] OTHER -> Failed(Text("Failed to open URL {}: {}", <<url>>))

InitOpenUrl ==
    /\ InitSupervisor
    /\ unit \in {[fn |-> "open_url_in_browser", url |-> u, is_wsl |-> w, pc |-> "call",
                  spawned |-> <<>>, status |-> "none", result |-> Failed(Text("", <<>>))] :
                 u \in Urls, w \in BOOLEAN}

\* The validation and, for a file URL, the decoding of the path.
OpenUrlCheck ==
    /\ unit.fn = "open_url_in_browser" /\ unit.pc = "call"
    /\ unit' = IF Rejection(unit.url).ok
               THEN [unit EXCEPT !.pc = "open"]
               ELSE [unit EXCEPT !.pc = "done", !.result = Rejection(unit.url)]
    /\ UNCHANGED supervisor

\* One opener is run and waited for.
OpenUrlRun ==
    /\ unit.fn = "open_url_in_browser" /\ unit.pc = "open"
    /\ NextOpener(unit.url, unit.is_wsl, unit.spawned, unit.status) # "none"
    /\ \E status \in Statuses :
          unit' = [unit EXCEPT
                      !.spawned = Append(@, NextOpener(unit.url, unit.is_wsl,
                                                       unit.spawned, unit.status)),
                      !.status = status]
    /\ UNCHANGED supervisor

OpenUrlReturn ==
    /\ unit.fn = "open_url_in_browser" /\ unit.pc = "open"
    /\ NextOpener(unit.url, unit.is_wsl, unit.spawned, unit.status) = "none"
    /\ unit' = [unit EXCEPT !.pc = "done", !.result = OpenResult(unit.url, unit.status)]
    /\ UNCHANGED supervisor

NextOpenUrl == OpenUrlCheck \/ OpenUrlRun \/ OpenUrlReturn

SpecOpenUrl == InitOpenUrl /\ [][NextOpenUrl]_vars


\* ------------------------------------------------- readiness polling
\* check_port_ready: reqwest::get(&url).await sets no timeout of its own, so
\* a probe answers, or fails with a transport error, after a time only the
\* server and the operating system bound, or it never completes.
ProbeMs == {0, 100, 3000}

\* Ok(true) for a success status; Ok(false) for any other status and for a
\* transport error.  check_port_ready has no path that returns Err.  The
\* wait's `last` is the outcome of its latest probe, `probes` their number.
ProbeOutcomes == {"success", "other status", "transport error"}

\* Faulty variant: any response counts as ready.
check_port_ready_AnyResponse(outcome) == outcome # "transport error"

check_port_ready(outcome) == outcome = "success"

InitWait ==
    /\ InitSupervisor
    /\ unit \in {[fn |-> "wait_for_port_ready", timeout_seconds |-> t, pc |-> "loop",
                  elapsed |-> 0, probes |-> 0, last |-> "none", result |-> FALSE] :
                 t \in 0..MaxTimeoutS}

\* while start.elapsed() < timeout_duration
WaitLoop ==
    /\ unit.fn = "wait_for_port_ready" /\ unit.pc = "loop"
    /\ unit' = IF unit.elapsed < unit.timeout_seconds * 1000
               THEN [unit EXCEPT !.pc = "probe"]
               ELSE [unit EXCEPT !.pc = "done", !.result = FALSE]
    /\ UNCHANGED supervisor

\* check_port_ready(url.clone()).await completes.
WaitProbe ==
    /\ unit.fn = "wait_for_port_ready" /\ unit.pc = "probe"
    /\ \E d \in ProbeMs, outcome \in ProbeOutcomes :
          unit' = IF check_port_ready(outcome)
                  THEN [unit EXCEPT !.pc = "done", !.result = TRUE, !.last = outcome,
                                    !.elapsed = @ + d, !.probes = @ + 1]
                  ELSE [unit EXCEPT !.pc = "sleep", !.last = outcome,
                                    !.elapsed = @ + d, !.probes = @ + 1]
    /\ UNCHANGED supervisor

\* check_port_ready(url.clone()).await never completes.
WaitProbeHangs ==
    /\ unit.fn = "wait_for_port_ready" /\ unit.pc = "probe"
    /\ unit' = [unit EXCEPT !.pc = "hung"]
    /\ UNCHANGED supervisor

\* tokio::time::sleep(Duration::from_millis(500)).await
WaitSleep ==
    /\ unit.fn = "wait_for_port_ready" /\ unit.pc = "sleep"
    /\ unit' = [unit EXCEPT !.pc = "loop", !.elapsed = @ + WaitPollMs]
    /\ UNCHANGED supervisor

NextWait == WaitLoop \/ WaitProbe \/ WaitProbeHangs \/ WaitSleep

SpecWait == InitWait /\ [][NextWait]_vars


\* ------------------------------- start_app_process: the other returns
\* launch_commands.as_ref().map_or(true, |cmd| cmd.trim().is_empty())
IsBookmark(launch_commands) ==
    ~launch_commands.some
        \/ \A i \in DOMAIN launch_commands.value : Trim(launch_commands.value[i]) = <<>>

BookmarkNeedsUrl ==
    ProcessResult(FALSE, Text("Bookmark apps require a URL", <<>>), 0,
                  Text("No URL provided for bookmark app", <<>>))

\* Faulty variant: the result of a bookmark carries a pid.
BookmarkOpened_WithPid(url) ==
    ProcessResult(TRUE, Text("Opened URL: {}", <<url>>), 1, NoError)

BookmarkOpened(url) ==
    ProcessResult(TRUE, Text("Opened URL: {}", <<url>>), 0, NoError)

\* The failure results of start: the message is the error as well.
StartFailed(error_msg) == ProcessResult(FALSE, error_msg, 0, error_msg)

\* The inputs of a bookmark-type start
BookmarkCommands == {Absent, Option(<<>>), Option(<< <<" ">>, <<>> >>)}

BookmarkUrls == {Absent, Option(<<"https://", "a">>), Option(<<"a">>)}

\* The call with a bookmark-type input: no launch commands.  Without a URL it
\* returns at once; with one it awaits open_url_in_browser.
StartBookmark(c, a, launch_commands, url) ==
    /\ MayCall(c)
    /\ ncalls = 0 => a = FirstApp
    /\ IsBookmark(launch_commands)
    /\ ncalls' = ncalls + 1
    /\ call' = [call EXCEPT ![c] =
            IF url.some
            THEN [Begin(c, "start", a, "opening") EXCEPT
                     !.is_bookmark = TRUE, !.url = url.value]
            ELSE [Begin(c, "start", a, "done") EXCEPT
                     !.is_bookmark = TRUE, !.ret = BookmarkNeedsUrl]]
    /\ UNCHANGED <<unit, processes, child, nextPid, monitor, reader, events>>

\* What open_url_in_browser(url) can return
OpenUrlResults(url) ==
    IF Rejection(url).ok
    THEN {OpenResult(url, status) : status \in Statuses}
    ELSE {Rejection(url)}

\* open_url_in_browser has returned: emit("process-started") or
\* emit("process-error"), neither with a pid, and return.
StartBookmarkOpened(c) ==
    /\ call[c].cmd = "start" /\ call[c].pc = "opening"
    /\ \E opened \in OpenUrlResults(call[c].url) :
          IF opened.ok
          THEN /\ events' = Emit(0, <<Event("process-started", call[c].app_id, 0,
                                            "Opened URL: {}", c)>>)
               /\ call' = [call EXCEPT ![c] = Return(c, BookmarkOpened(call[c].url))]
          ELSE /\ events' = Emit(0, <<Event("process-error", call[c].app_id, 0,
                                            opened.message.format, c)>>)
               /\ call' = [call EXCEPT ![c] = Return(c, StartFailed(opened.message))]
    /\ UNCHANGED <<unit, processes, child, nextPid, monitor, reader, ncalls>>

\* The inputs of a process-type start and what it finds: the working
\* directory, the launch commands, whether the normalized directory exists,
\* and what cmd.spawn() returns.
StartDirs ==
    {Absent, Option(<<FS, "u">>), Option(WslFwd \o <<"u">>),
     Option(<<BS, BS, "wsl.localhost", FS>>)}

StartCommands == {<< <<"run">> >>, << <<"run">>, <<"run">> >>}

SpawnResults == {"Ok", "NotFound", "PermissionDenied", "Other"}

\* start from the normalization of the working directory to cmd.spawn(): the
\* error message it returns with, or Ok.  validate_directory fails where
\* normalize_path fails and where the directory is missing; in the second
\* case start goes on with normalize_path's result.
StartOutcome(working_directory, launch_commands, path_exists, spawned) ==
    LET dir  == IF working_directory.some
                THEN normalize_path(working_directory.value) ELSE Ok(<<>>)
        normalized_working_dir ==
                IF working_directory.some THEN Option(dir.value) ELSE Absent
        prepared == prepare_multi_command_execution(
                        launch_commands, normalized_working_dir, Absent)
    IN IF ~dir.ok
       THEN Err(Text("Failed to normalize working directory: {}", <<dir.error.format>>))
       ELSE IF ~prepared.ok
       THEN Err(Text("Failed to prepare launch commands: {}", <<prepared.error.format>>))
       ELSE IF working_directory.some /\ ~path_exists
       THEN Err(Text("Working directory does not exist: {}", <<"dir">>))
       ELSE IF spawned = "NotFound"
       THEN Err(Text("Command not found: '{}'. Make sure the command exists and is in your PATH.",
                     <<"program">>))
       ELSE IF spawned = "PermissionDenied"
       THEN Err(Text("Permission denied when trying to execute: '{}'", <<"program">>))
       ELSE IF spawned = "Other"
       THEN Err(Text("Failed to start process: {}", <<"e">>))
       ELSE Ok(<<>>)

\* Faulty variant: a failed start announces the process as started.
FailureEvents_Started(c, error_msg) ==
    <<Event("process-started", call[c].app_id, 0, error_msg.format, c)>>

\* emit("process-error", {appId, error})
FailureEvents(c, error_msg) ==
    <<Event("process-error", call[c].app_id, 0, error_msg.format, c)>>

\* The errors start can return with after the existence check
StartErrors ==
    {StartOutcome(working_directory, launch_commands, path_exists, spawned).error :
        <<working_directory, launch_commands, path_exists, spawned>> \in
            {i \in StartDirs \X StartCommands \X BOOLEAN \X SpawnResults :
                ~StartOutcome(i[1], i[2], i[3], i[4]).ok}}

\* A start that has passed the existence check fails before or at the spawn:
\* emit("process-error") and return.  (StartSpawn is the step of the inputs
\* on which StartOutcome is Ok.)
StartFail(c) ==
    /\ call[c].cmd = "start" /\ call[c].pc = "checked"
    /\ \E error_msg \in StartErrors :
          /\ events' = Emit(0, FailureEvents(c, error_msg))
          /\ call' = [call EXCEPT ![c] = Return(c, StartFailed(error_msg))]
    /\ UNCHANGED <<unit, processes, child, nextPid, monitor, reader, ncalls>>

\* ------------------------------------- start: the working directory
\* What the file system holds at a normalized path.
DirKinds == {"missing", "file", "directory"}

\* validate_directory(path) on a target that is not Windows: the normalized
\* path if a directory is there.
validate_directory(path, kind) ==
    LET normalized == normalize_path(path)
    IN IF ~normalized.ok THEN normalized
       ELSE IF kind = "missing"
       THEN Err(Text("Directory does not exist: {}", normalized.value))
       ELSE IF kind # "directory"
       THEN Err(Text("Path is not a directory: {}", normalized.value))
       ELSE normalized

\* normalized_working_dir of start for Some(dir): validate_directory's
\* result, and on its failure normalize_path's.
ResolveWorkingDir(dir, kind) ==
    IF validate_directory(dir, kind).ok THEN validate_directory(dir, kind)
    ELSE normalize_path(dir)

\* cmd.spawn() with current_dir(dir): the child's chdir fails where no
\* directory is, and the error is none of NotFound's or PermissionDenied's
\* messages about the program.
SpawnAt(kind, spawned) == IF kind = "directory" THEN spawned ELSE "Other"

SpawnError(spawned) ==
    IF spawned = "NotFound"
    THEN Text("Command not found: '{}'. Make sure the command exists and is in your PATH.",
              <<"program">>)
    ELSE IF spawned = "PermissionDenied"
    THEN Text("Permission denied when trying to execute: '{}'", <<"program">>)
    ELSE Text("Failed to start process: {}", <<"e">>)

\* One start with a working directory, from its normalization to cmd.spawn();
\* the file system does not change under it.
InitStartDir ==
    /\ InitSupervisor
    /\ unit \in {[fn |-> "start_app_process", pc |-> "normalize",
                  working_directory |-> d, kind |-> k, launch_commands |-> l,
                  spawned |-> s, normalized_working_dir |-> Absent,
                  composed |-> FALSE, spawn_called |-> FALSE, result |-> Ok(<<>>)] :
                 d \in {v.value : v \in StartDirs \ {Absent}}, k \in DirKinds,
                 l \in StartCommands, s \in SpawnResults}

\* Normalize working directory (validate, else normalize, else return)
StartNormalize ==
    /\ unit.fn = "start_app_process" /\ unit.pc = "normalize"
    /\ LET dir == ResolveWorkingDir(unit.working_directory, unit.kind)
       IN unit' = IF dir.ok
                  THEN [unit EXCEPT !.pc = "compose",
                                    !.normalized_working_dir = Option(dir.value)]
                  ELSE [unit EXCEPT !.pc = "done",
                           !.result = Err(Text("Failed to normalize working directory: {}",
                                               <<dir.error.format>>))]
    /\ UNCHANGED supervisor

\* prepare_multi_command_execution
StartCompose ==
    /\ unit.fn = "start_app_process" /\ unit.pc = "compose"
    /\ LET prepared == prepare_multi_command_execution(
                           unit.launch_commands, unit.normalized_working_dir, Absent)
       IN unit' = IF prepared.ok
                  THEN [unit EXCEPT !.pc = "set_dir", !.composed = TRUE]
                  ELSE [unit EXCEPT !.pc = "done", !.composed = TRUE,
                           !.result = Err(Text("Failed to prepare launch commands: {}",
                                               <<prepared.error.format>>))]
    /\ UNCHANGED supervisor

\* Path::new(dir).exists(), then cmd.current_dir(dir)
StartSetDir ==
    /\ unit.fn = "start_app_process" /\ unit.pc = "set_dir"
    /\ unit' = IF unit.kind = "missing"
               THEN [unit EXCEPT !.pc = "done",
                        !.result = Err(Text("Working directory does not exist: {}",
                                            unit.normalized_working_dir.value))]
               ELSE [unit EXCEPT !.pc = "spawn"]
    /\ UNCHANGED supervisor

\* cmd.spawn()
StartDirSpawn ==
    /\ unit.fn = "start_app_process" /\ unit.pc = "spawn"
    /\ unit' = [unit EXCEPT !.pc = "done", !.spawn_called = TRUE,
                   !.result = IF SpawnAt(unit.kind, unit.spawned) = "Ok" THEN Ok(<<>>)
                              ELSE Err(SpawnError(SpawnAt(unit.kind, unit.spawned)))]
    /\ UNCHANGED supervisor

NextStartDir == StartNormalize \/ StartCompose \/ StartSetDir \/ StartDirSpawn

SpecStartDir == InitStartDir /\ [][NextStartDir]_vars


\* --------------------------------------- start: the browser auto-launch
\* url.contains("://")
HasScheme(url) ==
    \E i \in DOMAIN url : url[i] \in {"http://", "https://", "file://", "ftp://"}

\* The URL the readiness wait probes
CheckUrl(url) == IF HasScheme(url) THEN url ELSE <<"http://localhost:{}">>

\* Faulty variant: an unset flag counts as false.
ShouldLaunch_UnsetIsFalse(auto_launch_browser) ==
    auto_launch_browser = "Some(true)"

\* auto_launch_browser.unwrap_or(true)
ShouldLaunch(auto_launch_browser) ==
    IF auto_launch_browser = "None" THEN TRUE ELSE auto_launch_browser = "Some(true)"

\* browser_delay.unwrap_or(0)
BrowserDelay(browser_delay) == IF browser_delay.some THEN browser_delay.value ELSE 0

\* One step of the task, or the notification it emits
Did(op, arg) == [op |-> op, arg |-> arg]

LaunchUrls == {Absent, Option(<<"http://", "a">>), Option(<<"a">>)}
LaunchFlags == {"None", "Some(true)", "Some(false)"}
LaunchDelays == {[some |-> FALSE, value |-> 0], [some |-> TRUE, value |-> 0],
                 [some |-> TRUE, value |-> 2]}
LaunchPorts == {[some |-> FALSE, value |-> 0], [some |-> TRUE, value |-> 3000]}

\* The end of a start that has spawned its child, with its arguments about
\* the browser; log holds what the task has done, in order.
InitLaunch ==
    /\ InitSupervisor
    /\ unit \in {[fn |-> "auto_launch", pc |-> "started", url |-> u,
                  auto_launch_browser |-> f, browser_delay |-> d,
                  port_to_check |-> p, ready |-> "none", opened |-> "none",
                  log |-> <<>>] :
                 u \in LaunchUrls, f \in LaunchFlags, d \in LaunchDelays,
                 p \in LaunchPorts}

\* if let Some(url) = url { if should_launch { tokio::spawn(..) } }
LaunchSpawn ==
    /\ unit.fn = "auto_launch" /\ unit.pc = "started"
    /\ unit' = [unit EXCEPT !.pc =
                   IF unit.url.some /\ ShouldLaunch(unit.auto_launch_browser)
                   THEN "delay" ELSE "done"]
    /\ UNCHANGED supervisor

\* The task sleeps for the delay, if there is one.
LaunchDelay ==
    /\ unit.fn = "auto_launch" /\ unit.pc = "delay"
    /\ unit' = [unit EXCEPT
                   !.pc = IF unit.port_to_check.some THEN "wait" ELSE "open",
                   !.log = IF BrowserDelay(unit.browser_delay) > 0
                           THEN Append(@, Did("sleep", <<"browser_delay">>))
                           ELSE @]
    /\ UNCHANGED supervisor

\* wait_for_port_ready(check_url, port_check_timeout) returns Ok(true) or
\* Ok(false); it has no Err return.
LaunchWait ==
    /\ unit.fn = "auto_launch" /\ unit.pc = "wait"
    /\ \E ready \in BOOLEAN :
          unit' = [unit EXCEPT
                      !.ready = IF ready THEN "true" ELSE "false",
                      !.pc = IF ready THEN "open" ELSE "done",
                      !.log = @ \o <<Did("wait_for_port_ready", CheckUrl(unit.url.value))>>
                                \o IF ready THEN <<>>
                                   ELSE <<Did("browser-launch-failed",
                                              <<"Port not ready within timeout">>)>>]
    /\ UNCHANGED supervisor

\* A probe of the readiness wait never completes: the task stays in the wait.
LaunchWaitHangs ==
    /\ unit.fn = "auto_launch" /\ unit.pc = "wait"
    /\ unit' = [unit EXCEPT !.pc = "waiting for ever",
                   !.log = Append(@, Did("wait_for_port_ready", CheckUrl(unit.url.value)))]
    /\ UNCHANGED supervisor

\* open_url_in_browser(launch_url), then browser-launched or
\* browser-launch-failed
LaunchOpen ==
    /\ unit.fn = "auto_launch" /\ unit.pc = "open"
    /\ \E opened \in OpenUrlResults(unit.url.value) :
          unit' = [unit EXCEPT
                      !.pc = "done",
                      !.opened = IF opened.ok THEN "Ok" ELSE "Err",
                      !.log = @ \o <<Did("open_url_in_browser", unit.url.value),
                                     Did(IF opened.ok THEN "browser-launched"
                                         ELSE "browser-launch-failed",
                                         <<opened.message.format>>)>>]
    /\ UNCHANGED supervisor

NextLaunch == LaunchSpawn \/ LaunchDelay \/ LaunchWait \/ LaunchWaitHangs \/ LaunchOpen

SpecLaunch == InitLaunch /\ [][NextLaunch]_vars


\* ------------------------------------------ get_process_status and _all
\* Faulty variant: the snapshot reports the process as stopped.
AppProcess_Stopped(app_id, process_info) ==
    [app_id |-> app_id, pid |-> process_info.pid, status |-> "Stopped",
     started_at |-> process_info.started_at, error_message |-> NoError,
     output |-> <<>>, is_background |-> FALSE]

AppProcess(app_id, process_info) ==
    [app_id |-> app_id, pid |-> process_info.pid, status |-> "Running",
     started_at |-> process_info.started_at, error_message |-> NoError,
     output |-> <<>>, is_background |-> FALSE]

\* The call, under the lock: Some(snapshot) is the set of the one snapshot,
\* None the empty set.
GetProcessStatus(c, a) ==
    /\ MayCall(c)
    /\ ncalls = 0 => a = FirstApp
    /\ ncalls' = ncalls + 1
    /\ call' = [call EXCEPT ![c] =
            [Begin(c, "status", a, "done") EXCEPT
                !.snapshots = IF processes[a] # None
                              THEN {AppProcess(a, processes[a])} ELSE {}]]
    /\ UNCHANGED <<unit, processes, child, nextPid, monitor, reader, events>>

\* The call, under the lock: the map is the set of its values, each of which
\* holds its key.
GetAllProcessStatus(c) ==
    /\ MayCall(c)
    /\ ncalls' = ncalls + 1
    /\ call' = [call EXCEPT ![c] =
            [Begin(c, "status_all", "", "done") EXCEPT
                !.snapshots = {AppProcess(a, processes[a]) :
                                   a \in {b \in AppIds : processes[b] # None}}]]
    /\ UNCHANGED <<unit, processes, child, nextPid, monitor, reader, events>>


\* ---------------------------------------------------- output streaming
\* What a child writes to a pipe is a sequence of pieces: a run of ASCII
\* text, a blank, a line terminator, or a byte that no UTF-8 text holds.
NL == "\n"

Bytes == {"out", " ", NL, "0xFF"}

\* String::from_utf8 on the bytes of one line
ValidLine(line) == \A i \in DOMAIN line : line[i] # "0xFF"

\* The String the pieces of a valid line make
RECURSIVE Str(_)
Str(pieces) == IF pieces = <<>> THEN "" ELSE Head(pieces) \o Str(Tail(pieces))

\* The position of the first line terminator
LineEnd(bytes) ==
    CHOOSE k \in DOMAIN bytes :
        /\ bytes[k] = NL
        /\ \A j \in 1..(k - 1) : bytes[j] # NL

\* AsyncBufReadExt::read_line(&mut line) into an empty line, on a pipe that
\* holds `bytes`, its write end closed or not: it completes with the bytes
\* through the first terminator, or at the end of the stream with the bytes
\* that are left (Ok(0): none), and fails when the bytes are not UTF-8; the
\* bytes it took are gone from the pipe in every case.
read_line(bytes, closed) ==
    LET n    == IF Contains(bytes, NL) THEN LineEnd(bytes) ELSE Len(bytes)
        line == SubSeq(bytes, 1, n)
        rest == Slice(bytes, n + 1)
    IN IF ~Contains(bytes, NL) /\ ~closed
       THEN [result |-> "Pending", line |-> <<>>, rest |-> bytes]
       ELSE IF ~ValidLine(line)
            THEN [result |-> "Err", line |-> <<>>, rest |-> rest]
            ELSE [result |-> IF n = 0 THEN "Ok(0)" ELSE "Ok(n)",
                  line |-> line, rest |-> rest]

\* The process-output contents one turn of the reader's loop publishes.  At
\* Ok(0) `line` is empty: every turn that read something has cleared it.
Published(r) ==
    IF r.result = "Ok(n)" THEN <<Str(TrimEnd(r.line))>> ELSE <<>>

\* Faulty variant: the loop breaks after the first line as well.
AfterRead_BreaksAtLine(r) == "done"

\* The loop goes on after a line and breaks at Ok(0) and at an error.
AfterRead(r) == IF r.result = "Ok(n)" THEN "reading" ELSE "done"

Writers == 1..MaxWriters

\* What the child may hand to one write(2)
Writes == {<<"out", NL>>, <<"0xFF", NL>>}

\* The child writes to one of its output streams; the reader holds the other
\* end of the pipe for as long as it runs.
ChildWrite(p, s, bytes) ==
    /\ child[p].state = "running"
    /\ reader[p][s] = "reading"
    /\ child[p].written[s] < MaxWrites
    /\ child' = [child EXCEPT ![p].pipe[s] = @ \o bytes, ![p].written[s] = @ + 1]
    /\ UNCHANGED <<unit, processes, nextPid, monitor, reader, events, call, ncalls>>

\* One turn of the loop of the reader task of stream s: read_line completes,
\* the line, if any, is published, and the loop goes on or breaks.
ReadLine(p, s) ==
    /\ reader[p][s] = "reading"
    /\ LET r == read_line(child[p].pipe[s], child[p].state # "running")
       IN /\ r.result # "Pending"
          /\ child' = [child EXCEPT ![p].pipe[s] = r.rest]
          /\ reader' = [reader EXCEPT ![p][s] = AfterRead(r)]
          /\ events' = Emit(p,
                [i \in DOMAIN Published(r) |->
                    Event("process-output", child[p].app_id, 0, Published(r)[i], s)])
    /\ UNCHANGED <<unit, processes, nextPid, monitor, call, ncalls>>

\* One reader task on its own, with a child that writes any pieces to the
\* stream and closes it at any time: written is everything the child wrote,
\* published the contents the reader has published.
UnitReader(written, bytes, closed, pc, published) ==
    [fn |-> "reader", written |-> written, bytes |-> bytes, closed |-> closed,
     pc |-> pc, published |-> published]

InitReader ==
    /\ InitSupervisor
    /\ unit = UnitReader(<<>>, <<>>, FALSE, "reading", <<>>)

ReaderWrite ==
    /\ unit.fn = "reader" /\ ~unit.closed /\ unit.pc = "reading"
    /\ Len(unit.written) < MaxBytes
    /\ \E b \in Bytes :
          unit' = [unit EXCEPT !.written = Append(@, b), !.bytes = Append(@, b)]
    /\ UNCHANGED supervisor

ReaderClose ==
    /\ unit.fn = "reader" /\ ~unit.closed
    /\ unit' = [unit EXCEPT !.closed = TRUE]
    /\ UNCHANGED supervisor

ReaderTurn ==
    /\ unit.fn = "reader" /\ unit.pc = "reading"
    /\ LET r == read_line(unit.bytes, unit.closed)
       IN /\ r.result # "Pending"
          /\ unit' = [unit EXCEPT !.bytes = r.rest, !.pc = AfterRead(r),
                                  !.published = @ \o Published(r)]
    /\ UNCHANGED supervisor

NextReader == ReaderWrite \/ ReaderClose \/ ReaderTurn

SpecReader == InitReader /\ [][NextReader]_vars

\* ------------------------------------------------------ the process tree
\* The child forks a process, which stays in the child's process group.
ChildFork(p) ==
    /\ child[p].state = "running" /\ child[p].descendant = "none"
    /\ child' = [child EXCEPT ![p].descendant = "running"]
    /\ UNCHANGED <<unit, processes, nextPid, monitor, reader, events, call, ncalls>>

\* The forked process terminates by itself.
DescendantExit(p) ==
    /\ child[p].descendant = "running"
    /\ child' = [child EXCEPT ![p].descendant = "gone"]
    /\ UNCHANGED <<unit, processes, nextPid, monitor, reader, events, call, ncalls>>

\* ------------------------------------------------------ specification
Next ==
    \/ \E c \in Callers, a \in AppIds : StartCheck(c, a)
    \/ \E c \in Callers : StartSpawn(c)
    \/ \E c \in Callers : StartInsert(c)
    \/ \E c \in Callers : StartEmit(c)
    \/ \E p \in Pids : ChildExit(p, 0)
    \/ \E p \in Pids : MonitorWait(p)
    \/ \E p \in Pids : MonitorRemove(p)
    \/ \E p \in Pids : MonitorEmit(p)
    \/ \E c \in Callers, a \in AppIds : StopPop(c, a)
    \/ \E c \in Callers : StopSignal(c)
    \/ \E c \in Callers : StopWait(c)
    \/ \E c \in Callers : StopReport(c)
    \/ \E c \in Callers : KillAllDrain(c)
    \/ \E c \in Callers : KillAllSignal(c)
    \/ \E c \in Callers : KillAllWait(c)
    \/ \E c \in Callers : KillAllReturn(c)

Spec == Init /\ [][Next]_vars

\* The supervisor with one caller, whose calls follow one another, are for
\* one AppId and are MaxSoloCalls at most; the tasks that start spawns run
\* concurrently with the calls.
Solo == {CallerOrder[1]}

One == {FirstApp}

NextSolo ==
    \/ \E c \in Solo, a \in One : ncalls < MaxSoloCalls /\ StartCheck(c, a)
    \/ \E c \in Solo : StartSpawn(c)
    \/ \E c \in Solo : StartInsert(c)
    \/ \E c \in Solo : StartEmit(c)
    \/ \E p \in Pids : ChildExit(p, 0)
    \/ \E p \in Pids : MonitorWait(p)
    \/ \E p \in Pids : MonitorRemove(p)
    \/ \E p \in Pids : MonitorEmit(p)
    \/ \E c \in Solo, a \in One : ncalls < MaxSoloCalls /\ StopPop(c, a)
    \/ \E c \in Solo : StopSignal(c)
    \/ \E c \in Solo : StopWait(c)
    \/ \E c \in Solo : StopReport(c)
    \/ \E c \in Solo : ncalls < MaxSoloCalls /\ KillAllDrain(c)
    \/ \E c \in Solo : KillAllSignal(c)
    \/ \E c \in Solo : KillAllWait(c)
    \/ \E c \in Solo : KillAllReturn(c)

\* The one caller's supervisor with the children's output, the reader tasks
\* and every exit code.
NextIO ==
    \/ NextSolo
    \/ \E p \in Writers, exit_code \in ExitCodes : ChildExit(p, exit_code)
    \/ \E p \in Writers, s \in Streams, bytes \in Writes : ChildWrite(p, s, bytes)
    \/ \E p \in Writers, s \in Streams : ReadLine(p, s)

SpecIO == Init /\ [][NextIO]_vars

\* Every reader is a task of its own on the runtime, which runs a task that
\* is ready: a reader whose read_line can complete takes its turn.
SpecIOFair ==
    SpecIO /\ \A p \in Writers, s \in Streams : WF_vars(ReadLine(p, s))

\* The one caller's supervisor with children that fork.
\* One caller with the scheduler running its stop: the future of a stop is
\* polled whenever it can go on, and its sleeps end.
SpecStopFair ==
    /\ Init /\ [][NextSolo]_vars
    /\ \A c \in Solo :
          WF_vars(StopSignal(c)) /\ WF_vars(StopWait(c)) /\ WF_vars(StopReport(c))

\* One caller with the runtime running the exit monitors: a monitor is a task
\* of its own, woken when its child has terminated, and it holds the
\* registry lock for one map operation only.
SpecMonitorFair ==
    /\ Init /\ [][NextSolo]_vars
    /\ \A p \in Pids :
          WF_vars(MonitorWait(p)) /\ WF_vars(MonitorRemove(p)) /\ WF_vars(MonitorEmit(p))

NextTree ==
    \/ NextSolo
    \/ \E p \in Pids : ChildFork(p)
    \/ \E p \in Pids : DescendantExit(p)

SpecTree == Init /\ [][NextTree]_vars

\* The supervisor with every return of start and with the status commands.
NextAll ==
    \/ Next
    \/ \E c \in Callers, a \in AppIds, launch_commands \in BookmarkCommands,
          url \in BookmarkUrls : StartBookmark(c, a, launch_commands, url)
    \/ \E c \in Callers : StartBookmarkOpened(c)
    \/ \E c \in Callers : StartFail(c)
    \/ \E c \in Callers, a \in AppIds : GetProcessStatus(c, a)
    \/ \E c \in Callers : GetAllProcessStatus(c)

SpecAll == Init /\ [][NextAll]_vars
\* =====================================================================
\* Claims
\* =====================================================================
\* Caller c makes a call of cmd in this step.
Began(c, cmd) ==
    /\ ncalls' = ncalls + 1
    /\ call'[c].no = ncalls'
    /\ call'[c].cmd = cmd

\* The children of AppId a that have been spawned and have not terminated
LiveChildren(a) ==
    {p \in Pids : child[p].app_id = a /\ child[p].state = "running"}

\* C1: a start that finds a record for its AppId at the existence check
\* returns the 'already running' failure in that same step and changes
\* nothing else: no child, no reader or monitor task, no notification, the
\* registry as it was.
C1_RejectedStartHasNoEffect ==
    [][\A c \in Callers :
          (Began(c, "start") /\ processes[call'[c].app_id] # None)
          => /\ call'[c].pc = "done"
             /\ call'[c].ret.success = FALSE
             /\ call'[c].ret.message = Text("Process is already running", <<>>)
             /\ call'[c].ret.pid = 0
             /\ UNCHANGED <<processes, child, nextPid, monitor, reader, events>>]_vars

C1_Witness ==
    \E c \in Callers :
        /\ call[c].cmd = "start" /\ call[c].pc = "done"
        /\ call[c].ret.message = Text("Process is already running", <<>>)
        /\ processes[call[c].app_id] # None

\* C2: in every reachable state at most one spawned child that has not
\* terminated exists per AppId.
C2_AtMostOneLiveChildPerApp ==
    \A a \in AppIds : Cardinality(LiveChildren(a)) <= 1

\* C3: once a terminated child's exit monitor has run its removal, the
\* registry holds no record of that child, so that a later start for the
\* AppId is not rejected on its account.
C3_NoRecordOfFinishedChild ==
    \A a \in AppIds :
        processes[a] # None => monitor[processes[a].pid] \notin {"removed", "done"}

\* C4: the exit monitor of a process whose record a stop has already taken
\* removes no record: the record of a newer process under the same AppId
\* stays.
C4_StoppedMonitorSparesNewerRecord ==
    [][\A p \in Pids :
          (/\ monitor[p] = "exited" /\ monitor'[p] = "removed"
           /\ \E c \in Callers : call[c].cmd = "stop" /\ call[c].pid = p)
          => processes' = processes]_vars

\* C5: a stop for an AppId without a record returns the 'not found' result
\* in that same step, sends no signal, emits no notification and leaves the
\* registry as it was.
C5_StopWithoutRecordIsNoOp ==
    [][\A c \in Callers :
          (Began(c, "stop") /\ processes[call'[c].app_id] = None)
          => /\ call'[c].pc = "done"
             /\ call'[c].ret.success = FALSE
             /\ call'[c].ret.message = Text("Process not found or not running", <<>>)
             /\ call'[c].ret.error = Text("Process not found", <<>>)
             /\ call'[c].sent = <<>>
             /\ UNCHANGED <<processes, child, nextPid, monitor, reader, events>>]_vars

C5_Witness ==
    \E c, d \in Callers :
        /\ call[c].cmd = "stop" /\ call[c].pc = "done" /\ call[c].pid # 0
        /\ call[d].cmd = "stop" /\ call[d].pc = "done" /\ call[d].pid = 0
        /\ call[d].app_id = call[c].app_id /\ call[d].no > call[c].no
        /\ call[d].ret.message = Text("Process not found or not running", <<>>)

\* C6: the signals a stop has sent are SIGINT, SIGTERM, SIGKILL in this
\* order, each at most once; every signal is followed by a wait; every wait
\* before a later signal timed out; the wait that saw the process gone is the
\* last thing the ladder did.
C6_LadderOrder ==
    \A c \in Callers :
        (call[c].cmd = "stop" /\ call[c].pc \in {"signal", "wait", "report"})
        => LET sent  == call[c].sent
               waits == call[c].waits
           IN /\ Len(sent) <= 3
              /\ sent = SubSeq(<<"SIGINT", "SIGTERM", "SIGKILL">>, 1, Len(sent))
              /\ Len(waits) = IF call[c].pc = "wait" THEN Len(sent) - 1 ELSE Len(sent)
              /\ \A i \in DOMAIN waits :
                    waits[i] => (i = Len(waits) /\ call[c].pc = "report")
              /\ call[c].pc = "signal" => Len(sent) < 3

C6_Witness ==
    \E c \in Callers :
        /\ call[c].cmd = "stop" /\ call[c].pc = "report"
        /\ call[c].sent = <<"SIGINT", "SIGTERM">>
        /\ call[c].waits = <<FALSE, TRUE>>
\* Caller c's stop returns in this step.
StopReturns(c) ==
    call[c].cmd = "stop" /\ call[c].pc = "report" /\ call'[c].pc = "done"

\* The signal a result names, "none" if it names none
RecordedStep(ret) ==
    IF ret.message.args # <<>> THEN ret.message.args[1] ELSE "none"

ExpectedFailure(sent, rcs) ==
    LET failed == {i \in DOMAIN rcs : rcs[i] # 0}
        last   == CHOOSE i \in failed : \A j \in failed : j <= i
    IN IF failed = {}
       THEN Text("Failed to stop process within timeout", <<>>)
       ELSE Text("{} to group failed: {}", <<sent[last], "ESRCH">>)

\* C8: a stop whose three waits all timed out returns a failure with the last
\* signalling error (the timeout message if no signal call failed) and the
\* record's pid; from the removal on, during the ladder and after the return,
\* the registry holds no record of that process.
C8_FailedStop ==
    /\ [][\A c \in Callers :
            (StopReturns(c) /\ call[c].waits = <<FALSE, FALSE, FALSE>>)
            => /\ call'[c].ret.success = FALSE
               /\ call'[c].ret.message = ExpectedFailure(call[c].sent, call[c].rcs)
               /\ call'[c].ret.error = call'[c].ret.message
               /\ call'[c].ret.pid = call[c].pid]_vars
    /\ [](\A c \in Callers :
            (call[c].cmd = "stop" /\ call[c].pid # 0)
            => \A a \in AppIds : processes[a].pid # call[c].pid)

C8_Witness ==
    \E c, d \in Callers :
        /\ call[c].cmd = "stop" /\ call[c].pc = "done" /\ call[c].pid # 0
        /\ call[c].ret.success = FALSE
        /\ call[c].ret.message = Text("{} to group failed: {}", <<"SIGKILL", "ESRCH">>)
        /\ call[d].cmd = "stop" /\ call[d].pc = "done" /\ call[d].no > call[c].no
        /\ call[d].app_id = call[c].app_id
        /\ call[d].ret.error = Text("Process not found", <<>>)

\* The positions of the notifications about child p that satisfy Is
Positions(p, Is(_)) == {i \in DOMAIN events[p] : Is(events[p][i])}

IsStopped(e) == e.name = "process-stopped"

IsStoppedLine(e) ==
    e.name = "process-output" /\ e.content = "OddLauncher: Process stopped"

\* C9: a stop that took a record has emitted nothing while its ladder runs,
\* and when it has returned, successful or not, it has emitted exactly one
\* "process-stopped" with the record's pid and, after it, exactly one
\* 'Process stopped' output line.
C9_StopNotifications ==
    \A c \in Callers :
        (call[c].cmd = "stop" /\ call[c].pid # 0)
        => LET p       == call[c].pid
               stopped == Positions(p, IsStopped)
               lines   == Positions(p, IsStoppedLine)
           IN IF call[c].pc = "done"
              THEN /\ Cardinality(stopped) = 1
                   /\ Cardinality(lines) = 1
                   /\ \A i \in stopped :
                         /\ events[p][i].pid = p
                         /\ events[p][i].appId = call[c].app_id
                         /\ \A j \in lines : i < j /\ events[p][j].appId = call[c].app_id
              ELSE stopped = {} /\ lines = {}

C9_Witness ==
    \E c \in Callers :
        /\ call[c].cmd = "stop" /\ call[c].pc = "done" /\ call[c].pid # 0
        /\ call[c].ret.success = FALSE
        /\ Positions(call[c].pid, IsStopped) # {}
        /\ Positions(call[c].pid, IsStoppedLine) # {}

\* C10: kill_all that drained N records of which M failed to die (both waits
\* of their record timed out) returns the counts N - M and M, success exactly
\* when M = 0, and none of the drained records is in the registry when it
\* returns.
C10_KillAllCounts ==
    [][\A c \in Callers :
          (call[c].cmd = "kill_all" /\ call[c].pc = "return" /\ call'[c].pc = "done")
          => LET drained == call[c].processes_to_kill
                 N == Len(drained)
                 M == Cardinality({i \in DOMAIN call[c].waits : ~call[c].waits[i]})
             IN /\ Len(call[c].waits) = N
                /\ call'[c].ret.message =
                      Text("Killed {} processes, {} failed", <<N - M, M>>)
                /\ call'[c].ret.success = (M = 0)
                /\ \A i \in DOMAIN drained, a \in AppIds :
                      processes'[a].pid # drained[i].pid]_vars

C10_Witness ==
    \E c \in Callers :
        /\ call[c].cmd = "kill_all" /\ call[c].pc = "done"
        /\ call[c].ret.message = Text("Killed {} processes, {} failed", <<1, 1>>)
        /\ call[c].ret.success = FALSE

\* C14: path normalization is idempotent: wherever normalize_path(p) succeeds,
\* normalize_path of its result succeeds and returns that same result.
C14_NormalizeIdempotent ==
    (unit.fn = "normalize_path" /\ unit.pc = "twice") => unit.twice = unit.once

\* What is left of the path after its leading network prefix, in parts.
AfterPrefix(path) == Split(Slice(path, Len(WslBack) + 1))

\* C15: for a path with the WSL network prefix, normalize_path strips the
\* prefix and the distro segment and returns "/" followed by the remaining
\* segments joined with "/"; it fails with the invalid-path-format error when
\* fewer than two segments remain after the prefix.
C15_WslConversion ==
    (unit.fn = "normalize_path" /\ unit.pc # "call" /\ IsWslNetworkPath(unit.path)) =>
        IF Len(AfterPrefix(unit.path)) < 2
        THEN unit.once = Err(Text("Invalid WSL path format: {}", <<unit.path>>))
        ELSE unit.once = Ok(<<FS>> \o Join(Tail(AfterPrefix(unit.path)), <<FS>>))

\* A drive-letter path <L>:<rest>
DriveLetters == {"C"}

IsDriveLetterPath(p) == Len(p) >= 2 /\ p[1] \in DriveLetters /\ p[2] = ":"

Slashed(s) == [i \in DOMAIN s |-> IF s[i] = BS THEN FS ELSE s[i]]

\* C16: for every drive-letter path <L>:<rest> the Git-Bash conversion yields
\* /<l> followed by <rest> with its back-slashes turned into slashes and the
\* WSL conversion yields /mnt/<l> followed by the same; a path without a drive
\* letter only has its back-slashes turned into slashes.
C16_DriveConversions ==
    unit.fn = "convert_path" =>
        LET p == unit.windows_path
            l == <<"c">>
        IN /\ unit.unix # NotCalled =>
                unit.unix = IF IsDriveLetterPath(p)
                            THEN Returned(<<FS>> \o l \o Slashed(Slice(p, 3)))
                            ELSE Returned(Slashed(p))
           /\ unit.wsl # NotCalled =>
                unit.wsl = IF IsDriveLetterPath(p)
                           THEN Returned(<<FS, "m", "n", "t", FS>> \o l \o Slashed(Slice(p, 3)))
                           ELSE Returned(Slashed(p))

\* The lines of a script
RECURSIVE LinesOf(_)
LinesOf(s) ==
    IF \E i \in DOMAIN s : s[i] = "\n"
    THEN LET i == CHOOSE k \in DOMAIN s :
                      s[k] = "\n" /\ \A j \in 1..(k - 1) : s[j] # "\n"
         IN <<SubSeq(s, 1, i - 1)>> \o LinesOf(Slice(s, i + 1))
    ELSE <<s>>

IsTrace(line) == line # <<>> /\ line[1] = "echo \"OddLauncher: Executing command "

\* The input's command lines: its lines that hold a word, without the blanks
\* around them.
HasWord(line) == \E i \in DOMAIN line : line[i] # " "
InputCommands == LET ls == SelectSeq(unit.launch_commands, HasWord)
                 IN [i \in DOMAIN ls |-> Trim(ls[i])]

\* Two or more command lines were composed without a terminal selector.
MultiLine ==
    /\ unit.fn = "prepare_multi_command_execution" /\ unit.pc = "done"
    /\ ~unit.terminal_type.some
    /\ Len(InputCommands) >= 2

\* The result is bash -c <script>; the script has set -e before any command
\* and, for each input command in order, a trace line and then the command.
IsTracedScript(result, commands) ==
    /\ result.ok
    /\ result.value.program = <<"bash">>
    /\ Len(result.value.args) = 2 /\ result.value.args[1] = <<"-c">>
    /\ LET ls     == LinesOf(result.value.args[2])
           traces == {i \in DOMAIN ls : IsTrace(ls[i])}
           at(k)  == CHOOSE i \in traces : Cardinality({j \in traces : j < i}) = k - 1
       IN /\ \E e \in DOMAIN ls :
                /\ ls[e] = <<"set -e">>
                /\ \A j \in 1..(e - 1) : ls[j] = <<"#!/bin/bash">>
          /\ Cardinality(traces) = Len(commands)
          /\ \A k \in DOMAIN commands :
                /\ ls[at(k)] = <<"echo \"OddLauncher: Executing command ", ToString(k), ": ">>
                                   \o commands[k] \o <<"\"">>
                /\ at(k) + 1 \in DOMAIN ls
                /\ ls[at(k) + 1] = commands[k]

DecodingFails(url) ==
    StartsWith(url, <<"file://">>) /\ ~Utf8Valid(PercentDecode(FilePath(url)))

\* C18: open_url_in_browser on an input that starts with none of http://,
\* https://, file:// returns the validation error and runs no opener; on a
\* file:// input whose percent-decoding fails it returns an error and runs no
\* opener either.
C18_RejectedBeforeAnyOpener ==
    unit.fn = "open_url_in_browser" =>
        LET u == unit.url
            bad == u = <<>> \/ u[1] \notin {"http://", "https://", "file://"}
        IN /\ bad \/ DecodingFails(u) => unit.spawned = <<>>
           /\ (bad /\ unit.pc = "done") =>
                  unit.result = Failed(Text(
                      "Invalid URL format. Must start with http://, https://, or file://", <<>>))
           /\ (DecodingFails(u) /\ unit.pc = "done") => ~unit.result.ok

C18_Witness ==
    /\ unit.fn = "open_url_in_browser" /\ unit.pc = "done"
    /\ unit.url = <<"ftp://", "a">>
    /\ ~unit.result.ok /\ unit.spawned = <<>>

\* C13: wait_for_port_ready(url, T) on a URL whose probes never succeed
\* returns false once the elapsed time has reached T and within one poll
\* interval of T, and it is never left waiting in a probe.
C13_FalseWithinOnePollOfTimeout ==
    unit.fn = "wait_for_port_ready" =>
        /\ unit.pc # "hung"
        /\ unit.pc = "done" /\ ~unit.result =>
              /\ unit.elapsed >= unit.timeout_seconds * 1000
              /\ unit.elapsed <= unit.timeout_seconds * 1000 + WaitPollMs

\* C11: a bookmark-type start (command lines absent or blank) never inserts a
\* record, never spawns a child and never starts a reader or monitor task:
\* each of its steps leaves the registry, the children and the tasks as they
\* were, it never enters the spawn path, and its result carries no pid.
C11_BookmarkStartLeavesRegistry ==
    [][\A c \in Callers :
          (\/ Began(c, "start") /\ call'[c].is_bookmark
           \/ call[c].is_bookmark /\ call[c].pc = "opening" /\ call'[c] # call[c])
          => /\ UNCHANGED <<processes, child, nextPid, monitor, reader>>
             /\ call'[c].pc \in {"opening", "done"}
             /\ call'[c].pc = "done" => call'[c].ret.pid = 0]_vars

C11_Witness ==
    \E c \in Callers :
        /\ call[c].cmd = "start" /\ call[c].is_bookmark /\ call[c].pc = "done"
        /\ call[c].ret.success
        /\ processes[call[c].app_id] # None

Snapshot(a) ==
    [app_id |-> a, pid |-> processes[a].pid, status |-> "Running",
     started_at |-> processes[a].started_at, error_message |-> NoError,
     output |-> <<>>, is_background |-> FALSE]

\* C19: status(app_id) returns a snapshot exactly when the registry holds a
\* record for app_id, with the record's pid and start time, status Running
\* and an empty output buffer, and none otherwise; status_all returns one such
\* snapshot per registry entry; neither changes the registry.
C19_StatusIsSnapshot ==
    [][\A c \in Callers :
          /\ Began(c, "status") =>
                /\ call'[c].snapshots =
                      IF processes[call'[c].app_id] # None
                      THEN {Snapshot(call'[c].app_id)} ELSE {}
                /\ UNCHANGED processes
          /\ Began(c, "status_all") =>
                /\ call'[c].snapshots =
                      {Snapshot(a) : a \in {b \in AppIds : processes[b] # None}}
                /\ UNCHANGED processes]_vars

C19_Witness ==
    \E c \in Callers :
        /\ call[c].cmd = "status" /\ call[c].pc = "done"
        /\ processes[call[c].app_id] # None
        /\ call[c].snapshots = {Snapshot(call[c].app_id)}

\* C20: start's insert is atomic with its existence check: of two concurrent
\* process-type starts for one AppId at most one passes the check, so no two
\* of them are past the check at the same time.
C20_CheckAndInsertAtomic ==
    \A c1, c2 \in Callers :
        (/\ c1 # c2
         /\ call[c1].cmd = "start" /\ call[c2].cmd = "start"
         /\ call[c1].app_id = call[c2].app_id)
        => ~(/\ call[c1].pc \in {"checked", "spawned", "inserted"}
             /\ call[c2].pc \in {"checked", "spawned", "inserted"})

\* The notifications about child p that its reader tasks and its exit
\* monitor published
FromTasks(e) == e.task \in Streams \cup {"monitor"}

\* C21: the registry insert and the process-started notification of a
\* spawned child precede every process-output notification of its readers
\* and its exit monitor and its process-exit notification.
C21_StartedBeforeOutputAndExit ==
    \A p \in Pids : \A i \in DOMAIN events[p] :
        (FromTasks(events[p][i])
            /\ events[p][i].name \in {"process-output", "process-exit"})
        => /\ \E j \in 1..(i - 1) : events[p][j].name = "process-started"
           /\ \A c \in Callers :
                 (call[c].cmd = "start" /\ call[c].pid = p)
                 => call[c].pc \in {"inserted", "done"}

\* Child p has terminated and its exit monitor has not yet run its removal.
ExitPending(p) ==
    /\ child[p].state \in {"zombie", "reaped"}
    /\ monitor[p] \in {"waiting", "exited"}

\* C22: the exit monitor publishes process-exit, with the exit code, only
\* after it has run its removal, and a start whose existence check runs
\* while a child of its AppId has terminated and that removal has not yet
\* run is rejected as already running.
C22_RemovalBeforeExitAndRestart ==
    [][/\ \A p \in Pids :
             (\E i \in DOMAIN events'[p] : events'[p][i].name = "process-exit")
             => /\ monitor'[p] = "done"
                /\ monitor[p] \in {"removed", "done"}
                /\ \E i \in DOMAIN events'[p] :
                      /\ events'[p][i].name = "process-exit"
                      /\ events'[p][i].content = ExitCodeJson(child[p].exit_code)
       /\ \A c \in Callers :
             (/\ Began(c, "start")
              /\ \E p \in Pids :
                    child[p].app_id = call'[c].app_id /\ ExitPending(p))
             => call'[c].ret = AlreadyRunning]_vars

\* The lines of what a child wrote to a stream: the text before each line
\* terminator, and the text after the last one if there is any.
WrittenLines(written) ==
    LET ls == LinesOf(written)
    IN IF ls[Len(ls)] = <<>> THEN SubSeq(ls, 1, Len(ls) - 1) ELSE ls

\* C23: what a reader has published is, in order and each once, the lines the
\* child wrote to its stream (each without its terminator and the white space
\* before it), and once the reader has stopped it is all of them, a last line
\* without a terminator included.
C23_PublishedIsWritten ==
    unit.fn = "reader"
    => LET lines == WrittenLines(unit.written)
           want  == [i \in DOMAIN lines |-> Str(TrimEnd(lines[i]))]
       IN /\ Len(unit.published) <= Len(want)
          /\ \A i \in DOMAIN unit.published : unit.published[i] = want[i]
          /\ unit.pc = "done" => unit.published = want

\* The stream s of child p is at its end: the child has terminated and the
\* pipe is empty.
EndOfStream(p, s) == child[p].state # "running" /\ child[p].pipe[s] = <<>>

\* The next line of stream s of child p holds a byte that is not UTF-8.
BadLine(p, s) ==
    LET bytes == child[p].pipe[s]
    IN \E k \in DOMAIN bytes :
          /\ bytes[k] = "0xFF"
          /\ \A j \in 1..(k - 1) : bytes[j] # NL
          /\ child[p].state # "running" \/ \E j \in DOMAIN bytes : bytes[j] = NL

\* C24: a reader stops only at the end of its own stream or at a read error
\* on it, and its stopping changes nothing about the other reader or the
\* exit monitor; no step of a stop, a kill_all or the exit monitor stops a
\* reader; the exit monitor can take each of its steps whatever
\* the readers do; and a reader whose child has terminated, so that the pipe
\* is closed, stops in the end.
C24_TasksEndIndependently ==
    /\ [][\A p \in Pids, s \in Streams :
             /\ (reader[p][s] = "reading" /\ reader'[p][s] = "done")
                => /\ EndOfStream(p, s) \/ BadLine(p, s)
                   /\ \A t \in Streams \ {s} : reader'[p][t] = reader[p][t]
                   /\ monitor' = monitor
             /\ ( /\ processes' # processes \/ monitor' # monitor
                  /\ reader[p][s] = "reading" )
                => reader'[p][s] = "reading"]_vars
    /\ [](\A p \in Pids :
             /\ (monitor[p] = "waiting" /\ child[p].state = "zombie")
                => ENABLED MonitorWait(p)
             /\ monitor[p] = "exited" => ENABLED MonitorRemove(p)
             /\ monitor[p] = "removed" => ENABLED MonitorEmit(p))
    /\ \A p \in Writers, s \in Streams :
          []<>(child[p].state \in {"unborn", "running"} \/ reader[p][s] = "done")

C24_Witness ==
    \E p \in Writers, c \in Callers :
        /\ call[c].cmd = "stop" /\ call[c].pid = p
        /\ processes[child[p].app_id] = None
        /\ monitor[p] = "done"
        /\ child[p].written["stdout"] = 1
        /\ reader[p]["stdout"] = "done"
        /\ \A i \in DOMAIN events[p] : events[p][i].task # "stdout"
        /\ reader[p]["stderr"] = "reading"
        /\ child[p].pipe["stderr"] # <<>>


\* C25: the exit-code hint of a child's exit monitor is the last
\* process-output notification about that child: no streamed line follows
\* it, process-exit follows it, and its text is the hint for the child's
\* exit code (the generic message for other codes, the no-code message
\* without one).
C25_HintIsFinalOutput ==
    \A p \in Pids : \A i \in DOMAIN events[p] :
        (events[p][i].name = "process-output" /\ events[p][i].task = "monitor")
        => /\ events[p][i].content = exit_message(child[p].exit_code)
           /\ \E j \in (i + 1)..Len(events[p]) : events[p][j].name = "process-exit"
           /\ \A j \in (i + 1)..Len(events[p]) : events[p][j].name # "process-output"


\* The signals a kill_all has sent to the group of the record of process pid
SentTo(ka, pid) ==
    LET RECURSIVE Pick(_)
        Pick(i) == IF i > Len(ka.sent) THEN <<>>
                   ELSE IF ka.sent[i][1] = pid THEN <<ka.sent[i][2]>> \o Pick(i + 1)
                   ELSE Pick(i + 1)
    IN Pick(1)

\* C26: the step in which kill_all takes the records leaves the registry
\* empty and holds every record that was in it; no later step of that call
\* changes the registry; for its current record the call sends SIGTERM
\* first and SIGKILL only after a probe found the process alive with the
\* bound of the wait after SIGTERM elapsed, and never SIGINT; and when the
\* loop is over every drained record has been signalled and tallied, also
\* behind a record whose process failed to die.
C26_KillAllDrainsThenEscalates ==
    /\ [][\A c \in Callers :
            /\ Began(c, "kill_all")
               => /\ processes' = [a \in AppIds |-> None]
                  /\ Len(call'[c].processes_to_kill)
                        = Cardinality({a \in AppIds : processes[a] # None})
                  /\ \A a \in AppIds : processes[a] # None
                        => \E i \in DOMAIN call'[c].processes_to_kill :
                              call'[c].processes_to_kill[i]
                                 = [app_id |-> a, pid |-> processes[a].pid,
                                    pgid |-> processes[a].pgid]
            /\ (call[c].cmd = "kill_all" /\ call[c].pc # "done" /\ call'[c] # call[c])
               => /\ processes' = processes
                  /\ call'[c].pc # "done"
                     => call'[c].processes_to_kill = call[c].processes_to_kill
                  /\ Len(call'[c].sent) > Len(call[c].sent)
                     => LET rec == call[c].processes_to_kill[call[c].idx]
                            new == call'[c].sent[Len(call'[c].sent)]
                        IN /\ new[1] = rec.pid
                           /\ SentTo(call'[c], rec.pid) \in
                                 {<<"SIGTERM">>, <<"SIGTERM", "SIGKILL">>}
                  /\ (call[c].pc = "wait" /\ call'[c].pc = "signal"
                            /\ call'[c].idx = call[c].idx)
                     => LET rec == call[c].processes_to_kill[call[c].idx]
                        IN /\ SentTo(call[c], rec.pid) = <<"SIGTERM">>
                           /\ Exists(rec.pid)
                           /\ call[c].elapsed > KillAllTermMs]_vars
    /\ [](\A c \in Callers :
            (call[c].cmd = "kill_all" /\ call[c].pc = "return")
            => /\ Len(call[c].waits) = Len(call[c].processes_to_kill)
               /\ call[c].killed_count + call[c].failed_count
                     = Len(call[c].processes_to_kill)
               /\ \A i \in DOMAIN call[c].processes_to_kill :
                     SentTo(call[c], call[c].processes_to_kill[i].pid) # <<>>)

C26_Witness ==
    \E c \in Callers :
        /\ call[c].cmd = "kill_all" /\ call[c].pc = "return"
        /\ Len(call[c].processes_to_kill) = 2
        /\ call[c].waits = <<FALSE, TRUE>>
        /\ SentTo(call[c], call[c].processes_to_kill[1].pid) = <<"SIGTERM", "SIGKILL">>
        /\ SentTo(call[c], call[c].processes_to_kill[2].pid) = <<"SIGTERM">>
        /\ processes = [a \in AppIds |-> None]


\* Call c holds, or as a stop has held, the record of process p.
Holds(cl, p) ==
    \/ cl.cmd = "stop" /\ cl.pid = p
    \/ /\ cl.cmd = "kill_all"
       /\ \E i \in DOMAIN cl.processes_to_kill : cl.processes_to_kill[i].pid = p

\* C27: the record of a process goes to at most one terminator.  A stop or
\* a kill_all obtains a record only by taking it out of the registry, in
\* the step in which the call begins, and no other call holds that record
\* then or got it before as a stop; a stop that finds no record for its
\* AppId returns 'not found' at once and sends no signal; and only a call
\* that holds the record of a process sends signals for it.
C27_OneTerminatorPerRecord ==
    /\ [][\A c \in Callers :
            /\ \A p \in Pids :
                 (Holds(call'[c], p) /\ (call'[c].no # call[c].no \/ ~Holds(call[c], p)))
                 => /\ Began(c, "stop") \/ Began(c, "kill_all")
                    /\ \E a \in AppIds :
                          /\ processes[a] # None /\ processes[a].pid = p
                          /\ processes'[a] = None
                          /\ call'[c].cmd = "stop" => call'[c].app_id = a
                    /\ \A d \in Callers \ {c} :
                          ~Holds(call[d], p) /\ ~Holds(call'[d], p)
            /\ \A a \in AppIds :
                 (Began(c, "stop") /\ call'[c].app_id = a)
                 => IF processes[a] = None
                    THEN /\ call'[c].pc = "done" /\ call'[c].ret = NotFound
                         /\ call'[c].sent = <<>> /\ call'[c].pid = 0
                         /\ child' = child
                    ELSE /\ call'[c].pid = processes[a].pid
                         /\ call'[c].pc = "signal"
            /\ Len(call'[c].sent) > Len(call[c].sent)
               => IF call[c].cmd = "stop"
                  THEN call[c].pid \in Pids /\ call[c].pgid = call[c].pid
                  ELSE Holds(call[c], call'[c].sent[Len(call'[c].sent)][1])]_vars
    /\ [](\A c, d \in Callers : \A p \in Pids :
            (c # d /\ Holds(call[c], p)) => ~Holds(call[d], p))

C27_Witness ==
    \E c, d \in Callers :
        /\ call[c].cmd = "stop" /\ call[c].pid \in Pids
        /\ call[c].pc = "wait" /\ call[c].sent # <<>>
        /\ call[d].cmd = "stop" /\ call[d].app_id = call[c].app_id
        /\ call[d].no > call[c].no
        /\ call[d].pc = "done" /\ call[d].ret = NotFound


\* The bound of the wait after each signal step of stop, in milliseconds
StopBounds == <<2000, 2000, 1000>>

\* C28: a stop that has taken a record returns.  In a wait, a probe that
\* finds the process gone ends the wait with true, a probe that finds it
\* alive with more than the step's bound elapsed ends it with false, and
\* any other probe is followed by a sleep of at least 100 ms; the signals a
\* stop has sent are the first of SIGINT, SIGTERM, SIGKILL, one wait each.
C28_StopReturns ==
    /\ [][\A c \in Callers :
            (call[c].cmd = "stop" /\ call[c].pc = "wait" /\ call'[c] # call[c])
            => LET gone == ~Exists(call[c].pid)
                   late == call[c].elapsed > StopBounds[call[c].idx]
               IN IF gone \/ late
                  THEN /\ call'[c].waits = Append(call[c].waits, gone)
                       /\ call'[c].pc \in {"signal", "report"}
                       /\ call'[c].pc = "signal"
                             <=> ~gone /\ call[c].idx < 3
                  ELSE /\ call'[c].pc = "wait"
                       /\ call'[c].waits = call[c].waits
                       /\ call'[c].elapsed >= call[c].elapsed + 100]_vars
    /\ [](\A c \in Callers :
            (call[c].cmd = "stop" /\ call[c].pc # "done")
            => /\ Len(call[c].sent) <= 3
               /\ call[c].sent = SubSeq(<<"SIGINT", "SIGTERM", "SIGKILL">>,
                                        1, Len(call[c].sent))
               /\ Len(call[c].waits) <= Len(call[c].sent)
               /\ call[c].elapsed <= StopBounds[call[c].idx] + 100)
    /\ \A c \in Solo :
          (call[c].cmd = "stop" /\ call[c].pc # "done")
             ~> (call[c].cmd = "stop" /\ call[c].pc = "done")

C28_Witness ==
    \E c \in Callers :
        /\ call[c].cmd = "stop" /\ call[c].pc = "report"
        /\ call[c].sent = <<"SIGINT", "SIGTERM", "SIGKILL">>
        /\ call[c].waits = <<FALSE, FALSE, FALSE>>
        /\ child[call[c].pid].state = "running"


\* C29: when the ladder of a stop has ended with success, no process of the
\* child's process group is alive: neither the child, the group's leader,
\* nor the process it forked.
C29_SuccessMeansGroupGone ==
    \A c \in Callers :
        (call[c].cmd = "stop" /\ call[c].pc = "report" /\ call[c].success)
        => /\ child[call[c].pid].state # "running"
           /\ child[call[c].pid].descendant # "running"


\* C30: every signal step of a stop whose child exists reaches the child,
\* also when the child could not be placed in a group of its own: the kill
\* call of the step succeeds.
C30_SignalReachesChildWithoutGroup ==
    [][\A c \in Callers :
          (/\ call[c].cmd = "stop"
           /\ Len(call'[c].sent) > Len(call[c].sent)
           /\ Exists(call[c].pid))
          => call'[c].rcs[Len(call'[c].rcs)] = 0]_vars


\* C31: a start whose working directory fails validation, because nothing
\* or no directory is at the path, and can be normalized does not fail for
\* that: it composes the command with the normalized path and, unless the
\* composition fails, calls cmd.spawn() and returns success if the program
\* could be run.
C31_FallbackReachesSpawn ==
    (/\ unit.fn = "start_app_process" /\ unit.pc = "done"
     /\ ~validate_directory(unit.working_directory, unit.kind).ok
     /\ normalize_path(unit.working_directory).ok)
    => /\ unit.composed
       /\ unit.normalized_working_dir
             = Option(normalize_path(unit.working_directory).value)
       /\ \/ unit.result.error.format = "Failed to prepare launch commands: {}"
          \/ /\ unit.spawn_called
             /\ unit.spawned = "Ok" => unit.result.ok


\* The positions in the task's log of the steps named op
LogOf(op) == {i \in DOMAIN unit.log : unit.log[i].op = op}

BrowserEvents == LogOf("browser-launched") \cup LogOf("browser-launch-failed")

C33_TrueAtFirstSuccess ==
    /\ [][unit.fn = "wait_for_port_ready"
          => /\ (unit.pc = "loop" /\ unit'.pc = "probe")
                => unit.elapsed < unit.timeout_seconds * 1000
             /\ (unit.pc = "loop" /\ unit'.pc = "done")
                => /\ unit.elapsed >= unit.timeout_seconds * 1000
                   /\ ~unit'.result /\ unit'.probes = unit.probes
             /\ unit'.probes # unit.probes
                => /\ unit.pc = "probe" /\ unit'.probes = unit.probes + 1
                   /\ IF unit'.last = "success"
                      THEN unit'.pc = "done" /\ unit'.result
                      ELSE unit'.pc = "sleep" /\ ~unit'.result
             /\ (unit.pc = "sleep" /\ unit' # unit)
                => /\ unit'.pc = "loop" /\ unit'.probes = unit.probes
                   /\ unit'.elapsed = unit.elapsed + 500
             /\ unit.pc = "done" => unit' = unit]_vars
    /\ [](unit.fn = "wait_for_port_ready"
          => /\ unit.result <=> (unit.pc = "done" /\ unit.last = "success")
             /\ unit.last = "success" => unit.pc = "done"
             /\ unit.timeout_seconds = 0 => unit.probes = 0 /\ ~unit.result)

C33_Witness ==
    /\ unit.fn = "wait_for_port_ready" /\ unit.pc = "done"
    /\ unit.result /\ unit.last = "success"
    /\ unit.probes = 3
    /\ unit.elapsed >= 1000


\* The program and the leading arguments of each selector's strategy; any
\* other selector has those of bash.
Strategy(terminal_type) ==
    CASE terminal_type = <<"cmd">> -> << <<"cmd.exe">>, <<"/c">> >>
      [] terminal_type = <<"powershell">> -> << <<"powershell.exe">>, <<"-Command">> >>
      [] terminal_type = <<"pwsh">> -> << <<"pwsh.exe">>, <<"-Command">> >>
      [] terminal_type = <<"gitbash">> -> << <<"bash.exe">>, <<"-c">> >>
      [] terminal_type = <<"wsl">> -> << <<"wsl.exe">>, <<"bash">>, <<"-c">> >>
      [] terminal_type = <<"zsh">> -> << <<"zsh">>, <<"-c">> >>
      [] terminal_type = <<"fish">> -> << <<"fish">>, <<"-c">> >>
      [] terminal_type = <<"sh">> -> << <<"sh">>, <<"-c">> >>
      [] OTHER -> << <<"bash">>, <<"-c">> >>

\* The words with which each strategy opens its change of directory
ChangeDir(terminal_type) ==
    CASE terminal_type = <<"cmd">> -> "cd /d \""
      [] terminal_type \in {<<"powershell">>, <<"pwsh">>} -> "Set-Location -Path '"
      [] OTHER -> "cd '"

\* text ends with the command text, and before it stands the change into
\* some directory.
ChangesDirFirst(text, terminal_type, user_commands) ==
    /\ Len(text) > Len(user_commands) + 1
    /\ SubSeq(text, Len(text) - Len(user_commands) + 1, Len(text)) = user_commands
    /\ \E i \in 1..(Len(text) - Len(user_commands) - 1) :
          text[i] = ChangeDir(terminal_type)

\* C34: a composition that is given a terminal selector returns, for every
\* selector and input, the program and leading arguments of the selector's
\* strategy (those of bash for a selector it does not know) and as last
\* argument the whole command text, behind the change into the working
\* directory if there is one; it never returns what the path without
\* selector returns where that differs, and never fails.
C34_SelectorStrategy ==
    (unit.fn = "prepare_multi_command_execution" /\ unit.pc = "done"
        /\ unit.terminal_type.some)
    => LET strategy == Strategy(unit.terminal_type.value)
           user_commands == UserCommands(unit.launch_commands)
       IN /\ unit.result.ok
          /\ unit.result.value.program = strategy[1]
          /\ Len(unit.result.value.args) = Len(strategy)
          /\ \A i \in 2..Len(strategy) : unit.result.value.args[i - 1] = strategy[i]
          /\ LET text == unit.result.value.args[Len(strategy)]
             IN IF unit.working_dir.some
                THEN ChangesDirFirst(text, unit.terminal_type.value, user_commands)
                ELSE \/ text = user_commands
                     \/ /\ unit.terminal_type.value = <<"wsl">>
                        /\ Len(text) > Len(user_commands)
                        /\ SubSeq(text, Len(text) - Len(user_commands) + 1, Len(text))
                              = user_commands


\* A composition without terminal selector has returned.
Legacy ==
    /\ unit.fn = "prepare_multi_command_execution" /\ unit.pc = "done"
    /\ ~unit.terminal_type.some

\* The result is a generated script run by bash, not an argument vector of
\* the input's words, and every input command is a line of the script.
IsInlineScript(result, commands) ==
    /\ result.ok
    /\ result.value.program = <<"bash">>
    /\ Len(result.value.args) = 2 /\ result.value.args[1] = <<"-c">>
    /\ \A k \in DOMAIN commands :
          \E i \in DOMAIN LinesOf(result.value.args[2]) :
              LinesOf(result.value.args[2])[i] = commands[k]

\* The words of a line: its pieces that are not blanks
NonBlank(piece) == piece # " "

\* What a composition without selector returns for no command line and for
\* one: the empty-command error, and the line's first word as program with
\* the other words as arguments.
LegacyUpToOneLine ==
    /\ Len(InputCommands) = 0 => unit.result = Err(Text("No valid commands found", <<>>))
    /\ Len(InputCommands) = 1
       => LET words == SelectSeq(InputCommands[1], NonBlank)
          IN unit.result = Ok([program |-> <<words[1]>>,
                               args |-> [i \in 1..(Len(words) - 1) |-> <<words[i + 1]>>]])

C36_ProgramNotEmpty ==
    unit.fn = "prepare_multi_command_execution" /\ unit.pc = "done" /\ unit.result.ok
    => \E i \in DOMAIN unit.result.value.program : unit.result.value.program[i] # ""

C36_Witness ==
    /\ unit.fn = "prepare_multi_command_execution" /\ unit.pc = "done"
    /\ unit.terminal_type = Option(<<"">>)
    /\ InputCommands = <<>>
    /\ unit.result.ok /\ unit.result.value.program = <<"bash">>


\* The steps the source takes between process_manager.processes.lock() and
\* the end of the guard's scope: start's existence check and its insert, the
\* exit monitor's remove, stop's remove, the two status reads and kill_all's
\* drain.
InLockScope ==
    \/ \E c \in Callers, a \in AppIds : StartCheck(c, a)
    \/ \E c \in Callers : StartInsert(c)
    \/ \E p \in Pids : MonitorRemove(p)
    \/ \E c \in Callers, a \in AppIds : StopPop(c, a)
    \/ \E c \in Callers, a \in AppIds : GetProcessStatus(c, a)
    \/ \E c \in Callers : GetAllProcessStatus(c)
    \/ \E c \in Callers : KillAllDrain(c)

\* A step that spawns a process, delivers a signal or reaps a child, emits a
\* notification, or sleeps between two polls.
ActsOutside ==
    \/ nextPid' # nextPid
    \/ child' # child
    \/ events' # events
    \/ \E c \in Callers : call'[c].no = call[c].no /\ call'[c].elapsed > call[c].elapsed

\* C37: the registry changes only in a step taken inside a scope of the
\* registry lock, and no such step spawns, signals, emits or sleeps.
C37_LockScopes ==
    [][ /\ processes' # processes => InLockScope
        /\ InLockScope => ~ActsOutside ]_vars

\* A stop sleeps between two polls while a status_all that began after it
\* has read the registry and returned.
C37_Witness ==
    \E c, d \in Callers :
        /\ call[c].cmd = "stop" /\ call[c].pc = "wait" /\ call[c].elapsed > 0
        /\ call[d].cmd = "status_all" /\ call[d].pc = "done"
        /\ call[d].no > call[c].no


\* An open on a WSL host that has passed the validation.
OpensOnWsl ==
    /\ unit.fn = "open_url_in_browser" /\ unit.is_wsl
    /\ unit.pc \in {"open", "done"} /\ Rejection(unit.url).ok

IsWindowsFile(url) ==
    StartsWith(url, <<"file://">>) /\ IsWindowsPath(FilePath(url))

\* The openers are a prefix of `order`, none is run after a success, the
\* call returns only after a success or at the end of the order, and it
\* returns Ok exactly when the last opener exited with success.
FollowsOrder(order) ==
    /\ Len(unit.spawned) <= Len(order)
    /\ \A i \in DOMAIN unit.spawned : unit.spawned[i] = order[i]
    /\ unit.pc = "open" /\ unit.spawned # <<>> /\ unit.status = "success"
       => ~ENABLED OpenUrlRun
    /\ unit.pc = "done"
       => /\ unit.spawned # <<>>
          /\ unit.status = "success" \/ unit.spawned = order
          /\ unit.result.ok <=> unit.status = "success"
          /\ unit.result = OpenResult(unit.url, unit.status)

ByMonitor(e) == e.task = "monitor"

\* What the exit monitor of child p has emitted so far
MonitorEvents(p) == SelectSeq(events[p], ByMonitor)

Terminated(p) == child[p].state \in {"zombie", "reaped"}

\* Before its last step a monitor has emitted nothing; after it, one output
\* line with the exit hint and then one closing notification, and nothing
\* lies between the two in the child's notifications.
MonitorClosesOnce(p) ==
    IF monitor[p] = "done"
    THEN /\ Terminated(p)
         /\ Len(MonitorEvents(p)) = 2
         /\ MonitorEvents(p)[1].name = "process-output"
         /\ MonitorEvents(p)[1].content = exit_message(child[p].exit_code)
         /\ MonitorEvents(p)[2].name \in {"process-exit", "process-error"}
         /\ \E i \in 1..(Len(events[p]) - 1) :
                ByMonitor(events[p][i]) /\ ByMonitor(events[p][i + 1])
    ELSE MonitorEvents(p) = <<>>

====
